---- MODULE Spec2Model ----
(***************************************************************************)
(* A model of ocitool's concurrent pull pipeline (src/compose/pull/mod.rs, *)
(* src/compose/pull/containerd_utils.rs, src/compose/lease.rs), of the     *)
(* streamed layer write (src/downloader.rs) and of the blob uploader       *)
(* (src/uploader.rs).                                                       *)
(*                                                                         *)
(* Spec        the pull workers of run_pull over a small registry          *)
(* SpecLease   the control flow of pull_command around its lease           *)
(* SpecLayer   OciDownloader::download_layer_to_containerd                 *)
(* SpecUpload  OciUploader::blob_exists / upload_blob                      *)
(***************************************************************************)
EXTENDS Integers, Sequences, FiniteSets, TLC

VARIABLES
    \* ---- run_pull (PullInstance and the content sink) ----
    existing_digests,   \* PullInstance.existing_digests: HashSet<String>
    download_queue,     \* PullInstance.download_queue: Vec<Downloadable>
    digest_to_image,    \* PullInstance.digest_to_image: HashMap<String, FullImageWithTag>
    spinners,           \* per-image ProgressBar: "running" or its final message
    sink,               \* digests committed to the content store
    names,              \* the sink's image store: image -> target descriptor bound to it
    wpc,                \* each worker task's position
    cur,                \* each worker's popped Downloadable
    lidx,               \* each worker's index in the Config arm's layer loop
    short_diff_ids,     \* the registry serves image b a config with one diff_id missing
    run,                \* 1: first pull run, 2: the run repeated on the sink it left
    wrote,              \* a content write was issued to the sink in the current run
    pushed,             \* history: how often each Downloadable was pushed on the queue
    popped,             \* history: how often each Downloadable was popped
    processed,          \* history: how often a worker finished a Downloadable's match arm
    faults,             \* number of injected registry/sink failures so far
    \* ---- pull_command and its lease ----
    lpc,                \* position of pull_command / of the process around it
    lease_id,           \* LeasedClient.lease_id (0: no LeasedClient)
    leases,             \* the sink's live leases
    created,            \* leases.create requests issued by this invocation
    delete_requests,    \* leases.delete requests issued for lease_id
    drop_task,          \* the task Drop for LeasedClient spawns
    result,             \* what pull_command returned
    invocation,         \* which run of the program this is
    \* ---- download_layer_to_containerd ----
    spc,                \* position in the function
    body,               \* sizes of the HTTP body chunks still to arrive
    content_length,     \* the Content-Length header parsed (0 when absent)
    buffer,             \* buffer.len()
    offset,             \* offset
    sent,               \* the WriteContentRequests sent so far, in order
    acked,              \* how many of them had their response stream drained
    \* ---- OciUploader ----
    upc,                \* position in upload_blob
    blob,               \* blob.digest of the call in progress
    uploaded_blobs,     \* OciUploader.uploaded_blobs
    head_status,        \* status of the HEAD probe of the call in progress (0: none)
    head_ok,            \* history: digests a HEAD probe answered 200 for
    posts,              \* history: upload-session POSTs issued per digest
    puts,               \* history: blob PUTs issued per digest
    upload_result,      \* what the last upload_blob returned
    calls,              \* number of upload_blob calls so far
    \* ---- OciClient::login ----
    image_bearer_map,   \* OciClient.image_bearer_map: HashMap<ImagePermission, String>
    map_lock,           \* which login group holds the map's Mutex
    credentials,        \* per registry: get_credentials(..) is Ok
    login_pc,           \* each login call: "idle", "running" or "returned"
    requested,          \* each login call's image_permissions argument
    gpc,                \* each call's position in login_to_container_registry, per registry
    todo,               \* the entries of a group the store loop has not reached yet
    curp,               \* the image_permission the store loop is at
    token,              \* the token a group's login_to_*_registry returned
    token_requests,     \* history: the token-endpoint requests of a group, in order
    done_before,        \* history: the login calls that had returned when a call began
    \* ---- PlanExecution::execute ----
    bpc,                \* position in execute
    plat,               \* index of the platform the outer loop is at
    nlayers,            \* plan layers of this platform the layer loop has finished
    tar_buffers,        \* tar_buffers: the (bytes, Digest) pairs of the plan layer in hand
    built_layers,       \* layers: Vec<Layer> of this platform
    pushed_bytes,       \* history: the bytes pushed as this platform's layer blobs, in order
    config_diff_ids,    \* image_config.rootfs.diff_ids of this platform
    manifest_layers,    \* the digests of manifest.layers of this platform
    built_manifests,    \* manifests: Vec<Manifest> (platform, number of layers)
    tags,               \* plan.tags
    tag_idx,            \* position of a for tag in &self.plan.tags loop
    reqlog,             \* history: the uploader calls made, in order, and how each ended
    build_result,       \* what execute returned
    \* merge_image_plan_configs (src/spec/plan.rs)
    cpc,                \* "idle" or "merged"
    base_config,        \* the plan's config: Option<ImagePlanConfig>
    platform_config,    \* the platform's config: Option<ImagePlanConfig>
    merged_config,      \* the Option<Config> returned
    \* FullImageWithTag::from_image_name (src/parser.rs), download_index
    rpc,                \* "idle", "parsed" or "requested"
    image_name,         \* the image string, as its sequence of tokens
    parsed,             \* the FullImageWithTag (in a sequence, empty before the parse)
    index_url,          \* the URL download_index requests
    \* extract_tar (src/whiteout.rs), once per layer into one directory
    xpc,                \* "idle", "walk" or "done"
    xlayer,             \* number of the layer being extracted
    layer_entries,      \* the tar entries of the two layers
    output_dir,         \* the tree under output_dir: entries with path, kind and layer of origin
    walk_dir,           \* the entries WalkDir has still to yield
    \* detect_media_type (src/archive.rs)
    dpc,                \* "idle" or "detected"
    buf,                \* the byte buffer
    detected,           \* the Result returned
    \* OciDownloader::download_manifest, download_config, download_layer (src/downloader.rs)
    kpc,                \* position in the download function
    kcall,              \* the call: which function, for which digest
    no_cache,           \* OciDownloader.no_cache
    blob_cache,         \* the digests with a file in blob_dir
    write_failed,       \* history: std::fs::write failed in this call
    kresult,            \* what the call returned
    kcalls,             \* number of calls made
    \* PlatformMatcher::find_manifest (src/platform.rs), as execute calls it
    mpc,                \* "idle" or "found"
    plan_platform,      \* the plan platform an image layer is built for: architecture, variant
    index_manifests,    \* index.manifests of the source image
    found,              \* the Option returned: the position of the manifest in the list
    \* OciClient::get_credentials and the token requests of one registry group (src/client.rs)
    qpc,                \* position in login_to_container_registry
    hostname_to_login,  \* the registries with configured credentials
    default_login,      \* a default login is configured
    github_token_env,   \* the GITHUB_TOKEN environment variable is set
    target_registry,    \* the registry of the group's reference image
    sent_requests,      \* history: the token requests sent, with the credential each carries
    qbearer,            \* the bearer the login ended with
    \* the containerd sink calls of src/compose/pull/containerd_utils.rs
    sink_pc,                \* position of the sink call in flight
    sink_content,       \* the content store: pairs of digest and labels
    sink_images,        \* the image store: pairs of name and target descriptor
    sink_ncalls,        \* number of sink calls made
    sink_op,            \* the sink call in flight or last returned
    sink_arg,           \* its arguments
    content_before,     \* the content store when the call was made
    images_before,      \* the image store when the call was made
    sink_status,        \* status of the last rpc
    sink_result,        \* what the call returned
    put_held_ok,        \* history: an upload of a held digest returned Ok
    \* the pull-state mutexes as the worker closures take them (src/compose/pull/mod.rs)
    lk_routine,         \* the closure or statement each worker is in
    lk_pos,             \* the next lock operation of that routine
    lk_held,            \* the mutex guards each worker holds
    \* the progress counters of one image's units (src/compose/pull/mod.rs)
    cnt_pc,             \* the arm and statement the image's pull is at
    unit_sizes,         \* the sizes of the image's index, manifest, config and layer
    index_known,        \* the index digest is in existing_digests
    total_bytes_to_download,\* the counter behind the progress bar's length
    downloaded_bytes,   \* the counter behind the progress bar's position
    all_ok,             \* history: no unit has failed
    \* parse_kernel_cmdline (src/system_login.rs)
    kc_pc,              \* "idle", "start" or "done"
    cmdline,            \* the kernel command line: its whitespace-separated parts
    system_login        \* the HashMap parse_kernel_cmdline returned

pullVars == <<existing_digests, download_queue, digest_to_image, spinners, sink, names,
              wpc, cur, lidx, short_diff_ids, run, wrote,
              pushed, popped, processed, faults>>

leaseVars == <<lpc, lease_id, leases, created, delete_requests, drop_task, result,
               invocation>>

layerVars == <<spc, body, content_length, buffer, offset, sent, acked>>

uploadVars == <<upc, blob, uploaded_blobs, head_status, head_ok, posts, puts,
                upload_result, calls>>

loginVars == <<image_bearer_map, map_lock, credentials, login_pc, requested, gpc, todo,
               curp, token, token_requests, done_before>>

planVars == <<cpc, base_config, platform_config, merged_config>>

parserVars == <<rpc, image_name, parsed, index_url>>

extractVars == <<xpc, xlayer, layer_entries, output_dir, walk_dir>>

detectVars == <<dpc, buf, detected>>

cacheVars == <<kpc, kcall, no_cache, blob_cache, write_failed, kresult, kcalls>>

matcherVars == <<mpc, plan_platform, index_manifests, found>>

credsVars == <<qpc, hostname_to_login, default_login, github_token_env, target_registry, sent_requests, qbearer>>

sinkVars == <<sink_pc, sink_content, sink_images, sink_ncalls, sink_op, sink_arg, content_before, images_before, sink_status, sink_result, put_held_ok>>

locksVars == <<lk_routine, lk_pos, lk_held>>

countersVars == <<cnt_pc, unit_sizes, index_known, total_bytes_to_download, downloaded_bytes, all_ok>>

cmdlineVars == <<kc_pc, cmdline, system_login>>

buildVars == <<bpc, plat, nlayers, tar_buffers, built_layers, pushed_bytes,
               config_diff_ids, manifest_layers, built_manifests, tags, tag_idx, reqlog, build_result>>

notPull == <<leaseVars, layerVars, uploadVars, loginVars, buildVars, planVars, parserVars,
    extractVars,
    detectVars,
    cacheVars,
    matcherVars,
    credsVars,
    sinkVars,
    locksVars,
    countersVars,
    cmdlineVars>>
notLease == <<pullVars, layerVars, uploadVars, loginVars, buildVars, planVars, parserVars,
    extractVars,
    detectVars,
    cacheVars,
    matcherVars,
    credsVars,
    sinkVars,
    locksVars,
    countersVars,
    cmdlineVars>>
notLayer == <<pullVars, leaseVars, uploadVars, loginVars, buildVars, planVars, parserVars,
    extractVars,
    detectVars,
    cacheVars,
    matcherVars,
    credsVars,
    sinkVars,
    locksVars,
    countersVars,
    cmdlineVars>>
notUpload == <<pullVars, leaseVars, layerVars, loginVars, buildVars, planVars, parserVars,
    extractVars,
    detectVars,
    cacheVars,
    matcherVars,
    credsVars,
    sinkVars,
    locksVars,
    countersVars,
    cmdlineVars>>
notLogin == <<pullVars, leaseVars, layerVars, uploadVars, buildVars, planVars, parserVars,
    extractVars,
    detectVars,
    cacheVars,
    matcherVars,
    credsVars,
    sinkVars,
    locksVars,
    countersVars,
    cmdlineVars>>
notBuild == <<pullVars, leaseVars, layerVars, uploadVars, loginVars, planVars, parserVars,
    extractVars,
    detectVars,
    cacheVars,
    matcherVars,
    credsVars,
    sinkVars,
    locksVars,
    countersVars,
    cmdlineVars>>
notPlan == <<pullVars, leaseVars, layerVars, uploadVars, loginVars, buildVars, parserVars,
    extractVars,
    detectVars,
    cacheVars,
    matcherVars,
    credsVars,
    sinkVars,
    locksVars,
    countersVars,
    cmdlineVars>>
notParser == <<pullVars, leaseVars, layerVars, uploadVars, loginVars, buildVars, planVars,
    extractVars,
    detectVars,
    cacheVars,
    matcherVars,
    credsVars,
    sinkVars,
    locksVars,
    countersVars,
    cmdlineVars>>

notExtract == <<pullVars, leaseVars, layerVars, uploadVars, loginVars, buildVars, planVars, parserVars,
    detectVars,
    cacheVars,
    matcherVars,
    credsVars,
    sinkVars,
    locksVars,
    countersVars,
    cmdlineVars>>
notDetect == <<pullVars, leaseVars, layerVars, uploadVars, loginVars, buildVars, planVars, parserVars, extractVars,
    cacheVars,
    matcherVars,
    credsVars,
    sinkVars,
    locksVars,
    countersVars,
    cmdlineVars>>
notCache == <<pullVars, leaseVars, layerVars, uploadVars, loginVars, buildVars, planVars, parserVars, extractVars, detectVars,
    matcherVars,
    credsVars,
    sinkVars,
    locksVars,
    countersVars,
    cmdlineVars>>
notMatcher == <<pullVars, leaseVars, layerVars, uploadVars, loginVars, buildVars, planVars, parserVars, extractVars, detectVars, cacheVars,
    credsVars,
    sinkVars,
    locksVars,
    countersVars,
    cmdlineVars>>
notCreds == <<pullVars, leaseVars, layerVars, uploadVars, loginVars, buildVars, planVars, parserVars, extractVars, detectVars, cacheVars, matcherVars,
    sinkVars,
    locksVars,
    countersVars,
    cmdlineVars>>
notSink == <<pullVars, leaseVars, layerVars, uploadVars, loginVars, buildVars, planVars, parserVars, extractVars, detectVars, cacheVars, matcherVars, credsVars,
    locksVars,
    countersVars,
    cmdlineVars>>
notLocks == <<pullVars, leaseVars, layerVars, uploadVars, loginVars, buildVars, planVars, parserVars, extractVars, detectVars, cacheVars, matcherVars, credsVars, sinkVars,
    countersVars,
    cmdlineVars>>
notCounters == <<pullVars, leaseVars, layerVars, uploadVars, loginVars, buildVars, planVars, parserVars, extractVars, detectVars, cacheVars, matcherVars, credsVars, sinkVars, locksVars,
    cmdlineVars>>
notCmdline == <<pullVars, leaseVars, layerVars, uploadVars, loginVars, buildVars, planVars, parserVars, extractVars, detectVars, cacheVars, matcherVars, credsVars, sinkVars, locksVars, countersVars>>
vars == <<pullVars, leaseVars, layerVars, uploadVars, loginVars, buildVars, planVars,
          parserVars,
          extractVars,
          detectVars,
          cacheVars,
          matcherVars,
          credsVars,
          sinkVars,
          locksVars,
          countersVars,
          cmdlineVars>>

----------------------------------------------------------------------------
(* Bounds *)

NumWorkers == 2
MaxFaults == 2

Workers == 1..NumWorkers

----------------------------------------------------------------------------
(* The registry: three images. a and b are multi-platform indexes that     *)
(* share layer L2; c's tag resolves directly to a manifest, the one b's    *)
(* index lists for the host platform.                                      *)

Images == {"a", "b", "c"}
HostArch == "amd64"

NoDigest == "none"
Digests == {"Xa", "Ma", "Ca", "L1", "L2", "Xb", "Mb", "Cb"}

OciIndexV1 == "application/vnd.oci.image.index.v1+json"
DockerManifestV2 == "application/vnd.docker.distribution.manifest.v2+json"

\* the document the registry serves for the image's tag, its mediaType and
\* the digest of its JSON
RootDocument(image) ==
    CASE image = "a" -> [media_type |-> OciIndexV1, digest |-> "Xa",
                         manifests |-> << [digest |-> "Mo", arch |-> "arm64"],
                                          [digest |-> "Ma", arch |-> "amd64"] >>]
      [] image = "b" -> [media_type |-> OciIndexV1, digest |-> "Xb",
                         manifests |-> << [digest |-> "Mb", arch |-> "amd64"] >>]
      [] OTHER       -> [media_type |-> DockerManifestV2, digest |-> "Mb",
                         manifests |-> << >>]

\* download_index's dispatch on the media type of the response
dispatch(media_type) ==
    IF media_type = OciIndexV1 THEN "ImageIndex" ELSE "ImageManifest"

\* downloader.download_index: the parsed IndexResponse and the digest of its JSON
IndexResponse(image) ==
    [kind |-> dispatch(RootDocument(image).media_type),
     media_type |-> RootDocument(image).media_type,
     digest |-> RootDocument(image).digest,
     manifests |-> RootDocument(image).manifests]

NoTarget == [digest |-> NoDigest, media_type |-> "none"]

\* downloader.download_manifest: config descriptor and layer descriptors
ImageManifest(digest) ==
    IF digest = "Ma" THEN [config |-> "Ca", layers |-> <<"L1", "L2">>]
                     ELSE [config |-> "Cb", layers |-> <<"L2">>]

\* downloader.download_config: rootfs.diff_ids
ImageConfig(digest) ==
    IF digest = "Ca" THEN [diff_ids |-> <<"U1", "U2">>]
    ELSE IF short_diff_ids THEN [diff_ids |-> << >>]
    ELSE [diff_ids |-> <<"U2">>]

\* What a pulled image consists of on the host platform
ManifestDigestOf(image) == IF image = "a" THEN "Ma" ELSE "Mb"
RequiredDigests(image) ==
    LET m == ManifestDigestOf(image)
        mf == ImageManifest(m)
    IN  {IndexResponse(image).digest, m, mf.config}
          \cup {mf.layers[i] : i \in 1..Len(mf.layers)}

\* PlatformMatcher::find_manifest: the first manifest of the host architecture
find_manifest(manifests) ==
    LET hits == {i \in 1..Len(manifests) : manifests[i].arch = HostArch}
    IN  IF hits = {} THEN NoDigest
        ELSE manifests[CHOOSE i \in hits : \A j \in hits : i <= j].digest

----------------------------------------------------------------------------
(* Downloadable *)

Index(image) ==
    [kind |-> "Index", image |-> image, digest |-> NoDigest, layers |-> << >>]
Manifest(image, digest) ==
    [kind |-> "Manifest", image |-> image, digest |-> digest, layers |-> << >>]
Config(image, digest, layers) ==
    [kind |-> "Config", image |-> image, digest |-> digest, layers |-> layers]
Layer(image, digest) ==
    [kind |-> "Layer", image |-> image, digest |-> digest, layers |-> << >>]

NoItem == Index("none")

\* the Downloadable variant a digest of the registry is pulled as
KindOf(digest) ==
    CASE digest \in {"Ma", "Mb"} -> "Manifest"
      [] digest \in {"Ca", "Cb"} -> "Config"
      [] OTHER                   -> "Layer"
UnitDigests == {"Ma", "Mb", "Ca", "Cb", "L1", "L2"}

Key(d) == <<d.kind, d.image, d.digest>>
Keys == {<<"Index", i, NoDigest>> : i \in Images}
          \cup {<<KindOf(d), i, d>> : i \in Images, d \in UnitDigests}

Bump(f, k) == [f EXCEPT ![k] = @ + 1]

----------------------------------------------------------------------------
(* Initial state: pull_command has listed the sink and seeded the queue    *)

\* the images sorted by name, one Index each (pull_command)
SeedQueue == << Index("a"), Index("b"), Index("c") >>

InitialInventories == SUBSET {"Mb", "Ca", "L2"}

InitPull ==
    /\ sink \in InitialInventories
    /\ short_diff_ids \in BOOLEAN
    /\ short_diff_ids => sink = {}
    /\ existing_digests = sink
    /\ download_queue = SeedQueue
    /\ digest_to_image = [d \in Digests |-> "none"]
    /\ spinners = [i \in Images |-> "running"]
    /\ names = [i \in Images |-> NoTarget]
    /\ wpc = [w \in Workers |-> "pop"]
    /\ cur = [w \in Workers |-> NoItem]
    /\ lidx = [w \in Workers |-> 0]
    /\ run = 1
    /\ wrote = FALSE
    /\ pushed = [k \in Keys |-> IF k[1] = "Index" /\ k[3] = NoDigest THEN 1 ELSE 0]
    /\ popped = [k \in Keys |-> 0]
    /\ processed = [k \in Keys |-> 0]
    /\ faults = 0

----------------------------------------------------------------------------
(* The closures of a worker task *)

Terminated(w) == wpc[w] \in {"done", "panicked"}

\* download_failed: close the image's spinner as failed unless it is finished
download_failed(full_image) ==
    spinners' = [spinners EXCEPT ![full_image] =
                    IF @ = "running" THEN "Failed" ELSE @]

\* download_complete: forget the digest; the image is complete when no other
\* digest maps to it
download_complete(full_image, digest) ==
    LET d2i == [digest_to_image EXCEPT ![digest] = "none"]
        is_complete == \A d \in Digests : d2i[d] # full_image
    IN  /\ digest_to_image' = d2i
        /\ spinners' = [spinners EXCEPT ![full_image] =
                           IF is_complete /\ @ = "running" THEN "Complete" ELSE @]

\* queue_if_not_download that keeps only the new digest in existing_digests
queue_if_not_download_reset(digest, something, full_image) ==
    IF digest \in existing_digests
    THEN UNCHANGED <<existing_digests, download_queue, digest_to_image, pushed>>
    ELSE /\ digest_to_image' = [digest_to_image EXCEPT ![digest] = full_image]
         /\ download_queue' = Append(download_queue, something)
         /\ existing_digests' = {digest}
         /\ pushed' = Bump(pushed, Key(something))

\* queue_if_not_download that forgets existing_digests.insert(digest)
queue_if_not_download_no_insert(digest, something, full_image) ==
    IF digest \in existing_digests
    THEN UNCHANGED <<existing_digests, download_queue, digest_to_image, pushed>>
    ELSE /\ digest_to_image' = [digest_to_image EXCEPT ![digest] = full_image]
         /\ download_queue' = Append(download_queue, something)
         /\ UNCHANGED existing_digests
         /\ pushed' = Bump(pushed, Key(something))

\* queue_if_not_download: one critical section under the existing_digests lock
queue_if_not_download(digest, something, full_image) ==
    IF digest \in existing_digests
    THEN UNCHANGED <<existing_digests, download_queue, digest_to_image, pushed>>
    ELSE /\ digest_to_image' = [digest_to_image EXCEPT ![digest] = full_image]
         /\ download_queue' = Append(download_queue, something)
         /\ existing_digests' = existing_digests \cup {digest}
         /\ pushed' = Bump(pushed, Key(something))

\* what queue_if_not_download returns
will_download(digest) == digest \notin existing_digests

\* a worker task unwinds on .expect(): the task ends, its unit is abandoned
Panic(w) ==
    /\ wpc' = [wpc EXCEPT ![w] = "panicked"]

\* the end of a match arm: back to the pop at the head of the loop
ArmDone(w) ==
    /\ wpc' = [wpc EXCEPT ![w] = "pop"]
    /\ processed' = Bump(processed, Key(cur[w]))

CanFail == faults < MaxFaults
Fault == faults' = faults + 1

\* containerd_utils::upload_content_to_containerd, when it returns Ok: the
\* content is committed, or the sink answered AlreadyExists
put_content_ok(digest) ==
    /\ sink' = sink \cup {digest}
    /\ wrote' = TRUE

----------------------------------------------------------------------------
(* The worker loop of run_pull *)

ArmOf(kind) ==
    CASE kind = "Index"    -> "index_download"
      [] kind = "Manifest" -> "manifest_download"
      [] kind = "Config"   -> "config_download"
      [] OTHER             -> "layer_download"

\* while let Some(downloadable) = { queue.lock().await.pop() }
Pop(w) ==
    /\ wpc[w] = "pop"
    /\ download_queue # << >>
    /\ LET downloadable == download_queue[Len(download_queue)]
       IN  /\ download_queue' = SubSeq(download_queue, 1, Len(download_queue) - 1)
           /\ cur' = [cur EXCEPT ![w] = downloadable]
           /\ popped' = Bump(popped, Key(downloadable))
           /\ wpc' = [wpc EXCEPT ![w] = ArmOf(downloadable.kind)]
    /\ UNCHANGED notPull
    /\ UNCHANGED <<existing_digests, digest_to_image, spinners, sink, names, lidx,
                   short_diff_ids, run, wrote, pushed, processed, faults>>

\* the pop returned None: the task ends
Exit(w) ==
    /\ wpc[w] = "pop"
    /\ download_queue = << >>
    /\ wpc' = [wpc EXCEPT ![w] = "done"]
    /\ UNCHANGED notPull
    /\ UNCHANGED <<existing_digests, download_queue, digest_to_image, spinners, sink,
                   names, cur, lidx, short_diff_ids, run, wrote, pushed, popped,
                   processed, faults>>

\* a download of the registry answered Ok: on to the next step of the arm
DownloadOk(w, arm, next) ==
    /\ wpc[w] = arm
    /\ wpc' = [wpc EXCEPT ![w] = next]
    /\ UNCHANGED notPull
    /\ UNCHANGED <<existing_digests, download_queue, digest_to_image, spinners, sink,
                   names, cur, lidx, short_diff_ids, run, wrote, pushed, popped,
                   processed, faults>>

\* a download answered Err(e): download_failed, then the next unit
DownloadErr(w, arm) ==
    /\ wpc[w] = arm
    /\ CanFail
    /\ Fault
    /\ download_failed(cur[w].image)
    /\ ArmDone(w)
    /\ UNCHANGED notPull
    /\ UNCHANGED <<existing_digests, download_queue, digest_to_image, sink, names, cur,
                   lidx, short_diff_ids, run, wrote, pushed, popped>>

\* upload_content_to_containerd(...).await.expect(..): Ok goes on
PutOk(w, arm, next) ==
    /\ wpc[w] = arm
    /\ put_content_ok(cur[w].digest)
    /\ wpc' = [wpc EXCEPT ![w] = next]
    /\ lidx' = [lidx EXCEPT ![w] = 1]
    /\ UNCHANGED notPull
    /\ UNCHANGED <<existing_digests, download_queue, digest_to_image, spinners, names,
                   cur, short_diff_ids, run, pushed, popped, processed, faults>>

\* upload_content_to_containerd(...).await.expect(..): the sink rejected the write
PutErr(w, arm) ==
    /\ wpc[w] = arm
    /\ CanFail
    /\ Fault
    /\ wrote' = TRUE
    /\ Panic(w)
    /\ UNCHANGED notPull
    /\ UNCHANGED <<existing_digests, download_queue, digest_to_image, spinners, sink,
                   names, cur, lidx, short_diff_ids, run, pushed, popped, processed>>

IndexDownloadOk(w) == DownloadOk(w, "index_download", "index_check")
IndexDownloadErr(w) == DownloadErr(w, "index_download")

\* the Index arm putting the index whether or not its digest is known
IndexCheck_always_put(w) ==
    /\ wpc[w] = "index_check"
    /\ wpc' = [wpc EXCEPT ![w] = "index_put"]
    /\ UNCHANGED notPull
    /\ UNCHANGED <<existing_digests, download_queue, digest_to_image, spinners, sink,
                   names, cur, lidx, short_diff_ids, run, wrote, pushed, popped,
                   processed, faults>>

\* if !existing_digests.lock().await.contains(&image_digest)
IndexCheck(w) ==
    /\ wpc[w] = "index_check"
    /\ wpc' = [wpc EXCEPT ![w] =
                  IF IndexResponse(cur[w].image).digest \in existing_digests
                  THEN "index_name" ELSE "index_put"]
    /\ UNCHANGED notPull
    /\ UNCHANGED <<existing_digests, download_queue, digest_to_image, spinners, sink,
                   names, cur, lidx, short_diff_ids, run, wrote, pushed, popped,
                   processed, faults>>

IndexPutOk(w) ==
    /\ wpc[w] = "index_put"
    /\ put_content_ok(IndexResponse(cur[w].image).digest)
    /\ wpc' = [wpc EXCEPT ![w] = "index_name"]
    /\ UNCHANGED notPull
    /\ UNCHANGED <<existing_digests, download_queue, digest_to_image, spinners, names,
                   cur, lidx, short_diff_ids, run, pushed, popped, processed, faults>>

IndexPutErr(w) == PutErr(w, "index_put")

\* create_image_in_containerd(...).await.expect(..): create, or update on conflict
IndexNameOk(w) ==
    /\ wpc[w] = "index_name"
    /\ names' = [names EXCEPT ![cur[w].image] =
                      [digest |-> IndexResponse(cur[w].image).digest,
                       media_type |-> IndexResponse(cur[w].image).media_type]]
    /\ wpc' = [wpc EXCEPT ![w] = "index_queue"]
    /\ UNCHANGED notPull
    /\ UNCHANGED <<existing_digests, download_queue, digest_to_image, spinners, sink,
                   cur, lidx, short_diff_ids, run, wrote, pushed, popped, processed,
                   faults>>

IndexNameErr(w) ==
    /\ wpc[w] = "index_name"
    /\ CanFail
    /\ Fault
    /\ Panic(w)
    /\ UNCHANGED notPull
    /\ UNCHANGED <<existing_digests, download_queue, digest_to_image, spinners, sink,
                   names, cur, lidx, short_diff_ids, run, wrote, pushed, popped,
                   processed>>

\* let downloading = match index_response {..}; if !downloading { "Unchanged" }
IndexQueue(w) ==
    /\ wpc[w] = "index_queue"
    /\ LET full_image == cur[w].image
           r == IndexResponse(full_image)
           m == find_manifest(r.manifests)
           mf == ImageManifest(r.digest)
           downloading == IF r.kind = "ImageIndex"
                          THEN m # NoDigest /\ will_download(m)
                          ELSE will_download(mf.config)
       IN  /\ IF r.kind = "ImageIndex"
              THEN IF m # NoDigest
                   THEN queue_if_not_download(m, Manifest(full_image, m), full_image)
                   ELSE UNCHANGED <<existing_digests, download_queue, digest_to_image,
                                    pushed>>
              ELSE queue_if_not_download(mf.config,
                       Config(full_image, mf.config, mf.layers), full_image)
           /\ spinners' = [spinners EXCEPT ![full_image] =
                              IF downloading THEN @ ELSE "Unchanged"]
    /\ ArmDone(w)
    /\ UNCHANGED notPull
    /\ UNCHANGED <<sink, names, cur, lidx, short_diff_ids, run, wrote, popped, faults>>

ManifestDownloadOk(w) == DownloadOk(w, "manifest_download", "manifest_put")
ManifestDownloadErr(w) == DownloadErr(w, "manifest_download")
ManifestPutOk(w) == PutOk(w, "manifest_put", "manifest_queue")
ManifestPutErr(w) == PutErr(w, "manifest_put")

ManifestQueue(w) ==
    /\ wpc[w] = "manifest_queue"
    /\ LET mf == ImageManifest(cur[w].digest)
       IN  queue_if_not_download(mf.config,
               Config(cur[w].image, mf.config, mf.layers), cur[w].image)
    /\ wpc' = [wpc EXCEPT ![w] = "manifest_complete"]
    /\ UNCHANGED notPull
    /\ UNCHANGED <<spinners, sink, names, cur, lidx, short_diff_ids, run, wrote,
                   popped, processed, faults>>

ManifestComplete(w) ==
    /\ wpc[w] = "manifest_complete"
    /\ download_complete(cur[w].image, cur[w].digest)
    /\ ArmDone(w)
    /\ UNCHANGED notPull
    /\ UNCHANGED <<existing_digests, download_queue, sink, names, cur, lidx,
                   short_diff_ids, run, wrote, pushed, popped, faults>>

ConfigDownloadOk(w) == DownloadOk(w, "config_download", "config_put")
ConfigDownloadErr(w) == DownloadErr(w, "config_download")
ConfigPutOk(w) == PutOk(w, "config_put", "config_layers")
ConfigPutErr(w) == PutErr(w, "config_put")

\* one iteration of: for (idx, layer) in config_to_download.layers.iter().enumerate()
ConfigLayer(w) ==
    /\ wpc[w] = "config_layers"
    /\ lidx[w] <= Len(cur[w].layers)
    /\ lidx[w] <= Len(ImageConfig(cur[w].digest).diff_ids)
    /\ LET layer_digest == cur[w].layers[lidx[w]]
       IN  queue_if_not_download(layer_digest, Layer(cur[w].image, layer_digest),
                                 cur[w].image)
    /\ lidx' = [lidx EXCEPT ![w] = @ + 1]
    /\ UNCHANGED notPull
    /\ UNCHANGED <<spinners, sink, names, wpc, cur, short_diff_ids, run, wrote,
                   popped, processed, faults>>

\* config.rootfs.diff_ids.get(idx).cloned().expect("Missing uncompressed digest")
ConfigLayerMissing(w) ==
    /\ wpc[w] = "config_layers"
    /\ lidx[w] <= Len(cur[w].layers)
    /\ lidx[w] > Len(ImageConfig(cur[w].digest).diff_ids)
    /\ Panic(w)
    /\ UNCHANGED notPull
    /\ UNCHANGED <<existing_digests, download_queue, digest_to_image, spinners, sink,
                   names, cur, lidx, short_diff_ids, run, wrote, pushed, popped,
                   processed, faults>>

ConfigComplete(w) ==
    /\ wpc[w] = "config_layers"
    /\ lidx[w] > Len(cur[w].layers)
    /\ download_complete(cur[w].image, cur[w].digest)
    /\ ArmDone(w)
    /\ UNCHANGED notPull
    /\ UNCHANGED <<existing_digests, download_queue, sink, names, cur, lidx,
                   short_diff_ids, run, wrote, pushed, popped, faults>>

\* download_layer_to_containerd returned Ok(()): the layer is committed
LayerOk(w) ==
    /\ wpc[w] = "layer_download"
    /\ cur[w].digest \notin sink
    /\ put_content_ok(cur[w].digest)
    /\ wpc' = [wpc EXCEPT ![w] = "layer_complete"]
    /\ UNCHANGED notPull
    /\ UNCHANGED <<existing_digests, download_queue, digest_to_image, spinners, names,
                   cur, lidx, short_diff_ids, run, pushed, popped, processed, faults>>

\* download_layer_to_containerd returned Err: the GET failed (nothing written), or a
\* Write/Commit was rejected (AlreadyExists included)
LayerErr(w) ==
    /\ wpc[w] = "layer_download"
    /\ \/ CanFail /\ Fault /\ \E b \in BOOLEAN : wrote' = (wrote \/ b)
       \/ cur[w].digest \in sink /\ wrote' = TRUE /\ UNCHANGED faults
    /\ download_failed(cur[w].image)
    /\ ArmDone(w)
    /\ UNCHANGED notPull
    /\ UNCHANGED <<existing_digests, download_queue, digest_to_image, sink, names, cur,
                   lidx, short_diff_ids, run, pushed, popped>>

LayerComplete(w) ==
    /\ wpc[w] = "layer_complete"
    /\ download_complete(cur[w].image, cur[w].digest)
    /\ ArmDone(w)
    /\ UNCHANGED notPull
    /\ UNCHANGED <<existing_digests, download_queue, sink, names, cur, lidx,
                   short_diff_ids, run, wrote, pushed, popped, faults>>

AllTerminated == \A w \in Workers : Terminated(w)
NoPanic == \A w \in Workers : wpc[w] # "panicked"
EveryImageCompleted ==
    /\ NoPanic
    /\ \A i \in Images : spinners[i] \in {"Complete", "Unchanged"}

\* pull_command run again for the same images, on the sink a first run that
\* completed every image has left: a new PullInstance, the sink listed again
SecondRun ==
    /\ run = 1
    /\ AllTerminated
    /\ EveryImageCompleted
    /\ run' = 2
    /\ existing_digests' = sink
    /\ download_queue' = SeedQueue
    /\ digest_to_image' = [d \in Digests |-> "none"]
    /\ spinners' = [i \in Images |-> "running"]
    /\ wpc' = [w \in Workers |-> "pop"]
    /\ cur' = [w \in Workers |-> NoItem]
    /\ lidx' = [w \in Workers |-> 0]
    /\ wrote' = FALSE
    /\ pushed' = [k \in Keys |-> IF k[1] = "Index" /\ k[3] = NoDigest THEN 1 ELSE 0]
    /\ popped' = [k \in Keys |-> 0]
    /\ processed' = [k \in Keys |-> 0]
    /\ UNCHANGED notPull
    /\ UNCHANGED <<sink, names, short_diff_ids, faults>>

Worker(w) ==
    \/ Pop(w) \/ Exit(w)
    \/ IndexDownloadOk(w) \/ IndexDownloadErr(w) \/ IndexCheck(w)
    \/ IndexPutOk(w) \/ IndexPutErr(w) \/ IndexNameOk(w) \/ IndexNameErr(w)
    \/ IndexQueue(w)
    \/ ManifestDownloadOk(w) \/ ManifestDownloadErr(w)
    \/ ManifestPutOk(w) \/ ManifestPutErr(w)
    \/ ManifestQueue(w) \/ ManifestComplete(w)
    \/ ConfigDownloadOk(w) \/ ConfigDownloadErr(w)
    \/ ConfigPutOk(w) \/ ConfigPutErr(w)
    \/ ConfigLayer(w) \/ ConfigLayerMissing(w) \/ ConfigComplete(w)
    \/ LayerOk(w) \/ LayerErr(w) \/ LayerComplete(w)

\* the parts of the program a specification does not exercise stay as constructed
IdlePull ==
    /\ sink = {}
    /\ short_diff_ids = FALSE
    /\ existing_digests = {}
    /\ download_queue = << >>
    /\ digest_to_image = [d \in Digests |-> "none"]
    /\ spinners = [i \in Images |-> "running"]
    /\ names = [i \in Images |-> NoTarget]
    /\ wpc = [w \in Workers |-> "pop"]
    /\ cur = [w \in Workers |-> NoItem]
    /\ lidx = [w \in Workers |-> 0]
    /\ run = 1
    /\ wrote = FALSE
    /\ pushed = [k \in Keys |-> 0]
    /\ popped = [k \in Keys |-> 0]
    /\ processed = [k \in Keys |-> 0]
    /\ faults = 0

IdleLease ==
    /\ lpc = "start"
    /\ lease_id = 0
    /\ leases = {}
    /\ created = 0
    /\ delete_requests = 0
    /\ drop_task = "none"
    /\ result = "none"
    /\ invocation = 1

IdleLayer ==
    /\ spc = "get"
    /\ body = << >>
    /\ content_length = 0
    /\ buffer = 0
    /\ offset = 0
    /\ sent = << >>
    /\ acked = 0

Blobs == {"d1", "d2"}

IdleUpload ==
    /\ upc = "idle"
    /\ blob = "none"
    /\ uploaded_blobs = << >>
    /\ head_status = 0
    /\ head_ok = {}
    /\ posts = [d \in Blobs |-> 0]
    /\ puts = [d \in Blobs |-> 0]
    /\ upload_result = "none"
    /\ calls = 0

\* login is called at most MaxLogins times on one OciClient
MaxLogins == 2
\* the merge of login is given at most MaxRequests image permissions
MaxRequests == 3

LoginCalls == 1..MaxLogins

\* FullImage values: two images of one regular registry, one of ghcr.io
Refs == {"d1", "d2", "g1"}
Registries == {"docker", "ghcr"}
registry_of(ref) == IF ref = "g1" THEN "ghcr" ELSE "docker"

\* FullImage::is_github_registry
is_github_registry(registry) == registry = "ghcr"

\* ImagePermission { full_image, permissions }
ImagePermissionsEnum == {"Pull", "Push"}
ImagePermission == Refs \X ImagePermissionsEnum

NoBearer == <<0, "none">>
NoHolder == <<0, "none">>
NoPermission == <<"none", "none">>

IdleLogin ==
    /\ image_bearer_map = [p \in ImagePermission |-> NoBearer]
    /\ map_lock = NoHolder
    /\ credentials = [r \in Registries |-> FALSE]
    /\ login_pc = [c \in LoginCalls |-> "idle"]
    /\ requested = [c \in LoginCalls |-> << >>]
    /\ gpc = [c \in LoginCalls |-> [r \in Registries |-> "none"]]
    /\ todo = [c \in LoginCalls |-> [r \in Registries |-> {}]]
    /\ curp = [c \in LoginCalls |-> [r \in Registries |-> NoPermission]]
    /\ token = [c \in LoginCalls |-> [r \in Registries |-> NoBearer]]
    /\ token_requests = [c \in LoginCalls |-> [r \in Registries |-> << >>]]
    /\ done_before = [c \in LoginCalls |-> {}]

IdleBuild ==
    /\ bpc = "platform"
    /\ plat = 0
    /\ nlayers = 0
    /\ tar_buffers = << >>
    /\ built_layers = << >>
    /\ pushed_bytes = << >>
    /\ config_diff_ids = << >>
    /\ manifest_layers = << >>
    /\ built_manifests = << >>
    /\ tags = << >>
    /\ tag_idx = 0
    /\ reqlog = << >>
    /\ build_result = "none"

\* no config merge is under way
IdlePlan ==
    /\ cpc = "idle"
    /\ base_config = << >>
    /\ platform_config = << >>
    /\ merged_config = << >>

\* no image string is being parsed
IdleParser ==
    /\ rpc = "idle"
    /\ image_name = << >>
    /\ parsed = << >>
    /\ index_url = << >>

\* no layer is being extracted
IdleExtract ==
    /\ xpc = "idle"
    /\ xlayer = 0
    /\ layer_entries = << >>
    /\ output_dir = {}
    /\ walk_dir = {}

\* no buffer is being inspected
IdleDetect ==
    /\ dpc = "idle"
    /\ buf = << >>
    /\ detected = "none"

\* no download is under way
IdleCache ==
    /\ kpc = "idle"
    /\ kcall = <<"none", "none">>
    /\ no_cache = FALSE
    /\ blob_cache = {}
    /\ write_failed = FALSE
    /\ kresult = <<"none", "none">>
    /\ kcalls = 0

\* no manifest is being looked up
IdleMatcher ==
    /\ mpc = "idle"
    /\ plan_platform = << >>
    /\ index_manifests = << >>
    /\ found = << >>

\* no credential lookup is under way
IdleCreds ==
    /\ qpc = "idle"
    /\ hostname_to_login = {}
    /\ default_login = FALSE
    /\ github_token_env = FALSE
    /\ target_registry = "none"
    /\ sent_requests = << >>
    /\ qbearer = "none"

\* no sink call is under way
IdleSink ==
    /\ sink_pc = "idle"
    /\ sink_content = {}
    /\ sink_images = {}
    /\ sink_ncalls = 0
    /\ sink_op = "none"
    /\ sink_arg = << >>
    /\ content_before = {}
    /\ images_before = {}
    /\ sink_status = "none"
    /\ sink_result = "none"
    /\ put_held_ok = FALSE

\* no worker is modelled at the level of its mutex guards
IdleLocks ==
    /\ lk_routine = << >>
    /\ lk_pos = << >>
    /\ lk_held = << >>

\* no counter is modelled
IdleCounters ==
    /\ cnt_pc = "idle"
    /\ unit_sizes = << >>
    /\ index_known = FALSE
    /\ total_bytes_to_download = 0
    /\ downloaded_bytes = 0
    /\ all_ok = TRUE

\* no command line is modelled
IdleCmdline ==
    /\ kc_pc = "idle"
    /\ cmdline = << >>
    /\ system_login = {}

IdleRest == IdleExtract /\ IdleDetect /\ IdleCache /\ IdleMatcher /\ IdleCreds /\ IdleSink /\ IdleLocks /\ IdleCounters /\ IdleCmdline

IdleFunctions == IdlePlan /\ IdleParser /\ IdleRest

Next == (\E w \in Workers : Worker(w)) \/ SecondRun

Init == InitPull /\ IdleLease /\ IdleLayer /\ IdleUpload /\ IdleLogin /\ IdleBuild /\ IdleFunctions

Spec == Init /\ [][Next]_vars

----------------------------------------------------------------------------
(* Properties of the pull run *)

\* how often a digest was pushed on download_queue in this run, for any image
DigestPushes(d) ==
    pushed[<<KindOf(d), "a", d>>] + pushed[<<KindOf(d), "b", d>>]
        + pushed[<<KindOf(d), "c", d>>]

\* C1: in every interleaving a digest is pushed onto download_queue at most once
\* per run, and a push never happens for a digest that is already a member of
\* existing_digests (from the initial inventory or from an earlier enqueue).
C1_PushedAtMostOnce ==
    [][run' = run =>
          \A d \in UnitDigests :
              /\ DigestPushes(d)' <= 1
              /\ d \in existing_digests => DigestPushes(d)' = DigestPushes(d)]_vars

\* C1 witness: the configs of a and of b/c both ran their layer loops over the
\* shared layer L2, which was pushed once
C1_Witness ==
    /\ DigestPushes("L2") = 1
    /\ processed[<<"Config", "a", "Ca">>] = 1
    /\ \E i \in {"b", "c"} : processed[<<"Config", i, "Cb">>] = 1

\* C2 (as claimed): once the run has ended, the sink holds the index, the matched
\* manifest, the config and every layer of each image the run closed as Complete
\* or Unchanged, whatever the sink held initially.
C2_PulledImagesPresent ==
    (run = 1 /\ AllTerminated /\ NoPanic) =>
        \A i \in Images :
            spinners[i] \in {"Complete", "Unchanged"} => RequiredDigests(i) \subseteq sink

\* C3: a second pull of the same images, on the sink left by a first run that
\* completed every image, issues no content write; it only re-binds the names.
C3_SecondPullWritesNothing ==
    run = 2 => /\ ~wrote
               /\ \A d \in UnitDigests : DigestPushes(d) = 0

\* C3 witness: the second run has ended, having re-bound every name
C3_Witness ==
    /\ run = 2
    /\ AllTerminated
    /\ NoPanic
    /\ \A i \in Images : processed[Key(Index(i))] = 1 /\ spinners[i] = "Unchanged"

\* C4 (as claimed): when all workers have exited, every Downloadable that was
\* pushed has been popped once and processed once, and the queue is empty.
C4_ProcessedExactlyOnce ==
    /\ \A k \in Keys : popped[k] <= pushed[k] /\ processed[k] <= popped[k]
    /\ AllTerminated =>
          /\ download_queue = << >>
          /\ \A k \in Keys : popped[k] = pushed[k] /\ processed[k] = pushed[k]

\* the digests that belong to an image: matched manifest, config and layers
BelongingDigests(image) ==
    LET mf == ImageManifest(ManifestDigestOf(image))
    IN  {ManifestDigestOf(image), mf.config}
          \cup {mf.layers[i] : i \in 1..Len(mf.layers)}

\* C30: an image's progress is marked complete only when every digest that
\* belongs to it is committed to the sink, a layer enqueued on behalf of
\* another image that shares it included.
C30_CompleteOnlyWhenCommitted ==
    \A i \in Images :
        spinners[i] = "Complete" => BelongingDigests(i) \subseteq sink

\* the digests the sink held when the run started: existing_digests grows by
\* the digests queue_if_not_download pushes, and by nothing else
present_at_start ==
    {d \in existing_digests : d \in UnitDigests => DigestPushes(d) = 0}

\* C31: an image is closed as unchanged only when its matched manifest and the
\* content below it were in the sink before the run started.
C31_UnchangedOnlyWhenPresent ==
    \A i \in Images :
        spinners[i] = "Unchanged" => BelongingDigests(i) \subseteq present_at_start

\* the worker is between a pop and the end of the match arm
Busy(w) == wpc[w] \notin {"pop", "done", "panicked"}

\* the worker is in an arm that can push children on the queue
MayEnqueue(w) == Busy(w) /\ cur[w].kind \in {"Index", "Manifest", "Config"}

\* C32: a worker does not exit while another worker is in an Index, Manifest
\* or Config arm, and whenever the queue is non-empty and fewer than
\* NumWorkers units are in progress some worker is at the pop (stated for the
\* runs in which no worker task has panicked).
C32_WorkersAreLongLived ==
    [][/\ \A w \in Workers :
             (wpc[w] # "done" /\ wpc'[w] = "done") =>
                 \A v \in Workers \ {w} : ~MayEnqueue(v)
       /\ (/\ download_queue' # << >>
           /\ NoPanic'
           /\ Cardinality({w \in Workers : Busy(w)'}) < NumWorkers) =>
              \E w \in Workers : wpc'[w] = "pop"
      ]_vars

\* every call of a worker returns: a worker that can take a step takes one
Fairness == \A w \in Workers : WF_vars(Worker(w))

SpecLive == Init /\ [][Next]_vars /\ Fairness

\* C33: the pull terminates: eventually all workers have exited, and at that
\* moment download_queue is empty.
C33_TerminatesWithEmptyQueue ==
    <>(AllTerminated /\ download_queue = << >>)

\* C34: existing_digests is add-only during a pull run, also after a unit for
\* one of its digests has failed.
C34_ExistingDigestsAddOnly ==
    [][run' = run => existing_digests \subseteq existing_digests']_vars

\* C34 witness: a unit was enqueued and failed, and its digest is still a
\* member of existing_digests
C34_Witness ==
    \E k \in Keys :
        /\ k[1] # "Index"
        /\ pushed[k] = 1
        /\ processed[k] = 1
        /\ spinners[k[2]] = "Failed"
        /\ k[3] \notin sink
        /\ k[3] \in existing_digests

\* C28: when the registry answers the index request with a single-platform
\* manifest, the Index arm ends with the manifest stored in the sink, the name
\* bound to it with the manifest's media type, a Config unit carrying the
\* manifest's layers enqueued (unless its digest is already known) and no
\* Manifest unit enqueued for the image.
C28_ManifestRootIsSinglePlatform ==
    [][\A w \in Workers :
          (/\ wpc[w] = "index_queue"
           /\ wpc'[w] # "index_queue"
           /\ RootDocument(cur[w].image).media_type = DockerManifestV2) =>
              LET full_image == cur[w].image
                  root == RootDocument(full_image)
                  mf == ImageManifest(root.digest)
              IN  /\ root.digest \in sink'
                  /\ names'[full_image] = [digest |-> root.digest,
                                           media_type |-> DockerManifestV2]
                  /\ mf.config \notin existing_digests =>
                        download_queue' = Append(download_queue,
                                              Config(full_image, mf.config, mf.layers))
                  /\ \A k \in Keys :
                        (k[1] = "Manifest" /\ k[2] = full_image) => pushed'[k] = 0
      ]_vars

\* the manifest and config a unit of an image hangs under
ConfigDigestOf(image) == ImageManifest(ManifestDigestOf(image)).config

\* C5 (as claimed): a Config is on the queue only after its image's manifest was
\* committed to the sink, a Layer only after its image's config was committed.
C5_ParentCommittedFirst ==
    \A k \in Keys :
        /\ (k[1] = "Config" /\ pushed[k] > 0) => ManifestDigestOf(k[2]) \in sink
        /\ (k[1] = "Layer" /\ pushed[k] > 0) => ConfigDigestOf(k[2]) \in sink

\* C6 (as claimed): a failure while a worker handles a unit closes the image's
\* progress and sends the worker back to the queue; no failure ends a worker.
C6_FailureClosesAndContinues ==
    [][faults' > faults =>
          \E w \in Workers :
              /\ wpc[w] # wpc'[w]
              /\ wpc'[w] = "pop"
              /\ spinners'[cur[w].image] # "running"]_vars

----------------------------------------------------------------------------
(* pull_command: the lease around the pull run (src/compose/pull/mod.rs,   *)
(* src/compose/lease.rs) and the process that runs it (src/main.rs)        *)

MaxInvocations == 3

\* a leases.delete request for the lease: the sink removes it, or the request
\* fails and the failure is dropped (let _ = ...)
DeleteRequest(id) ==
    /\ delete_requests' = delete_requests + 1
    /\ \/ leases' = leases \ {id}
       \/ leases' = leases

\* composes.is_empty(): return Ok(()) before any lease exists
NoComposeFiles ==
    /\ lpc = "start"
    /\ lpc' = "returned"
    /\ result' = "Ok"
    /\ UNCHANGED <<lease_id, leases, created, delete_requests, drop_task, invocation>>
    /\ UNCHANGED notLease

FoundComposeFiles ==
    /\ lpc = "start"
    /\ lpc' = "with_path"
    /\ UNCHANGED <<lease_id, leases, created, delete_requests, drop_task, result,
                   invocation>>
    /\ UNCHANGED notLease

\* LeasedClient::new: leases().create(..).await? answered with a lease
LeaseCreateOk ==
    /\ lpc = "with_path"
    /\ created' = created + 1
    /\ lease_id' = invocation
    /\ leases' = leases \cup {invocation}
    /\ lpc' = "list"
    /\ UNCHANGED <<delete_requests, drop_task, result, invocation>>
    /\ UNCHANGED notLease

\* LeasedClient::new: the create failed, or answered without a lease
LeaseCreateErr ==
    /\ lpc = "with_path"
    /\ created' = created + 1
    /\ result' = "Err"
    /\ lpc' = "returned"
    /\ UNCHANGED <<lease_id, leases, delete_requests, drop_task, invocation>>
    /\ UNCHANGED notLease

\* get_existing_digests_from_containerd(..).await? returned Ok
ListOk ==
    /\ lpc = "list"
    /\ lpc' = "run_pull"
    /\ UNCHANGED <<lease_id, leases, created, delete_requests, drop_task, result,
                   invocation>>
    /\ UNCHANGED notLease

\* get_existing_digests_from_containerd(..).await? returned Err: pull_command
\* returns, the last Arc<LeasedClient> is dropped, Drop spawns the delete
ListErr ==
    /\ lpc = "list"
    /\ result' = "Err"
    /\ drop_task' = "spawned"
    /\ lpc' = "returned"
    /\ UNCHANGED <<lease_id, leases, created, delete_requests, invocation>>
    /\ UNCHANGED notLease

\* match run_pull(&pull_instance).await: Ok(_), or Err(e) when the login failed
RunPullReturns ==
    /\ lpc = "run_pull"
    /\ \E r \in {"Ok", "Err"} : result' = r
    /\ lpc' = "delete_lease"
    /\ UNCHANGED <<lease_id, leases, created, delete_requests, drop_task, invocation>>
    /\ UNCHANGED notLease

\* pull_instance.container_client.delete_lease().await in both arms; then
\* pull_command returns and drops pull_instance: Drop spawns a second delete
DeleteLease ==
    /\ lpc = "delete_lease"
    /\ IF lease_id = 0
       THEN UNCHANGED <<delete_requests, leases>>
       ELSE DeleteRequest(lease_id)
    /\ drop_task' = IF lease_id = 0 THEN drop_task ELSE "spawned"
    /\ lpc' = "returned"
    /\ UNCHANGED <<lease_id, created, result, invocation>>
    /\ UNCHANGED notLease

\* the task spawned by Drop gets to send its delete before the process ends
DropTaskRuns ==
    /\ lpc = "returned"
    /\ drop_task = "spawned"
    /\ DeleteRequest(lease_id)
    /\ drop_task' = "sent"
    /\ UNCHANGED <<lpc, lease_id, created, result, invocation>>
    /\ UNCHANGED notLease

\* main: exit(1) on Err, or main returns and the runtime shuts down; a spawned
\* task that has not run is cancelled
ProcessExit ==
    /\ lpc = "returned"
    /\ lpc' = "exited"
    /\ drop_task' = IF drop_task = "spawned" THEN "cancelled" ELSE drop_task
    /\ UNCHANGED <<lease_id, leases, created, delete_requests, result, invocation>>
    /\ UNCHANGED notLease

\* the program is run again against the same sink
NextInvocation ==
    /\ lpc = "exited"
    /\ invocation < MaxInvocations
    /\ invocation' = invocation + 1
    /\ lpc' = "start"
    /\ lease_id' = 0
    /\ created' = 0
    /\ delete_requests' = 0
    /\ drop_task' = "none"
    /\ result' = "none"
    /\ UNCHANGED leases
    /\ UNCHANGED notLease

NextLease ==
    \/ NoComposeFiles \/ FoundComposeFiles
    \/ LeaseCreateOk \/ LeaseCreateErr
    \/ ListOk \/ ListErr
    \/ RunPullReturns \/ DeleteLease
    \/ DropTaskRuns \/ ProcessExit \/ NextInvocation

InitOfLease == IdlePull /\ IdleLease /\ IdleLayer /\ IdleUpload /\ IdleLogin /\ IdleBuild /\ IdleFunctions

SpecLease == InitOfLease /\ [][NextLease]_vars

\* C7 (as claimed): an invocation of pull_command creates at most one lease,
\* and once the process has left pull_command after the lease was acquired, by
\* any path, a delete for that lease id has been issued.
C7_LeaseReleasedOnEveryExit ==
    /\ created <= 1
    /\ (lpc = "exited" /\ lease_id # 0) => delete_requests >= 1

----------------------------------------------------------------------------
(* OciDownloader::download_layer_to_containerd (src/downloader.rs)         *)

\* const CHUNK_SIZE: usize = 16 * 1000 * 1000, scaled to units of 8 MB
CHUNK_SIZE == 2
\* the HTTP body arrives in at most MaxBodyChunks pieces of 1..MaxHttpChunk units
MaxBodyChunks == 3
MaxHttpChunk == 3

RECURSIVE SeqSum(_)
SeqSum(q) == IF q = << >> THEN 0 ELSE Head(q) + SeqSum(Tail(q))

Bodies == UNION {[1..n -> 1..MaxHttpChunk] : n \in 0..MaxBodyChunks}

InitLayer ==
    /\ spc = "get"
    /\ body \in Bodies
    /\ content_length \in {0, SeqSum(body)}
    /\ buffer = 0
    /\ offset = 0
    /\ sent = << >>
    /\ acked = 0

\* the labels of the layer: distribution source and uncompressed digest
LayerLabels == {"containerd.io/distribution.source.docker.io", "containerd.io/uncompressed"}

\* WriteContentRequest { action, ref: digest, total: content_length, offset, data,
\* labels }: the Commit carries the layer's labels, a Write carries none
WriteContentRequest(action, len) ==
    [action |-> action, total |-> content_length, offset |-> offset, len |-> len,
     labels |-> IF action = "Commit" THEN LayerLabels ELSE {}]

\* offset never advanced after a write
next_offset_stuck(off, length) == off

\* offset += chunk_length as i64
next_offset(off, length) == off + length

\* an error that is swallowed before the Commit: the function goes on to it
swallow(at) == IF at \in {"commit", "commit_ack"} THEN "err" ELSE "commit"

\* the ? operator and return Err(e.into()): the function returns the error
propagate(at) == "err"

\* the GET failed or answered a non-success status
LayerGetErr ==
    /\ spc = "get"
    /\ spc' = "err"
    /\ UNCHANGED <<body, content_length, buffer, offset, sent, acked>>
    /\ UNCHANGED notLayer

LayerGetOk ==
    /\ spc = "get"
    /\ spc' = "next"
    /\ UNCHANGED <<body, content_length, buffer, offset, sent, acked>>
    /\ UNCHANGED notLayer

\* while let Some(chunk) = stream.next().await: buffer.extend_from_slice(&chunk)
StreamChunk ==
    /\ spc = "next"
    /\ body # << >>
    /\ buffer' = buffer + Head(body)
    /\ body' = Tail(body)
    /\ spc' = "drain"
    /\ UNCHANGED <<content_length, offset, sent, acked>>
    /\ UNCHANGED notLayer

\* let chunk = chunk?: the body stream broke
StreamErr ==
    /\ spc = "next"
    /\ body # << >>
    /\ spc' = propagate(spc)
    /\ UNCHANGED <<body, content_length, buffer, offset, sent, acked>>
    /\ UNCHANGED notLayer

\* stream.next() returned None
StreamEnd ==
    /\ spc = "next"
    /\ body = << >>
    /\ spc' = "tail"
    /\ UNCHANGED <<body, content_length, buffer, offset, sent, acked>>
    /\ UNCHANGED notLayer

\* while buffer.len() >= CHUNK_SIZE: one Write of CHUNK_SIZE bytes, the call Ok
DrainWrite ==
    /\ spc = "drain"
    /\ buffer >= CHUNK_SIZE
    /\ sent' = Append(sent, WriteContentRequest("Write", CHUNK_SIZE))
    /\ buffer' = buffer - CHUNK_SIZE
    /\ offset' = next_offset(offset, CHUNK_SIZE)
    /\ spc' = "drain_ack"
    /\ UNCHANGED <<body, content_length, acked>>
    /\ UNCHANGED notLayer

\* content().write(request_stream).await? returned Err
DrainWriteErr ==
    /\ spc = "drain"
    /\ buffer >= CHUNK_SIZE
    /\ sent' = Append(sent, WriteContentRequest("Write", CHUNK_SIZE))
    /\ buffer' = buffer - CHUNK_SIZE
    /\ spc' = propagate(spc)
    /\ UNCHANGED <<body, content_length, offset, acked>>
    /\ UNCHANGED notLayer

\* loop { match stream.message().await { Ok(None) => break, .. } }
AckOk(at, next) ==
    /\ spc = at
    /\ acked' = acked + 1
    /\ spc' = next
    /\ UNCHANGED <<body, content_length, buffer, offset, sent>>
    /\ UNCHANGED notLayer

\* Err(e) => return Err(e.into())
AckErr(at) ==
    /\ spc = at
    /\ spc' = propagate(spc)
    /\ UNCHANGED <<body, content_length, buffer, offset, sent, acked>>
    /\ UNCHANGED notLayer

DrainAck == AckOk("drain_ack", "drain")
DrainAckErr == AckErr("drain_ack")

\* buffer.len() < CHUNK_SIZE: back to stream.next()
DrainDone ==
    /\ spc = "drain"
    /\ buffer < CHUNK_SIZE
    /\ spc' = "next"
    /\ UNCHANGED <<body, content_length, buffer, offset, sent, acked>>
    /\ UNCHANGED notLayer

\* if !buffer.is_empty(): one Write with the rest, the call Ok
TailWrite ==
    /\ spc = "tail"
    /\ buffer > 0
    /\ sent' = Append(sent, WriteContentRequest("Write", buffer))
    /\ spc' = "tail_ack"
    /\ UNCHANGED <<body, content_length, buffer, offset, acked>>
    /\ UNCHANGED notLayer

TailWriteErr ==
    /\ spc = "tail"
    /\ buffer > 0
    /\ sent' = Append(sent, WriteContentRequest("Write", buffer))
    /\ spc' = propagate(spc)
    /\ UNCHANGED <<body, content_length, buffer, offset, acked>>
    /\ UNCHANGED notLayer

\* the rest was acknowledged: offset += length as i64
TailAck ==
    /\ spc = "tail_ack"
    /\ acked' = acked + 1
    /\ offset' = next_offset(offset, buffer)
    /\ buffer' = 0
    /\ spc' = "commit"
    /\ UNCHANGED <<body, content_length, sent>>
    /\ UNCHANGED notLayer

TailAckErr == AckErr("tail_ack")

\* the buffer is empty after EOF
TailEmpty ==
    /\ spc = "tail"
    /\ buffer = 0
    /\ spc' = "commit"
    /\ UNCHANGED <<body, content_length, buffer, offset, sent, acked>>
    /\ UNCHANGED notLayer

\* Finalize with a commit: action Commit, data empty, the labels
CommitWrite ==
    /\ spc = "commit"
    /\ sent' = Append(sent, WriteContentRequest("Commit", 0))
    /\ spc' = "commit_ack"
    /\ UNCHANGED <<body, content_length, buffer, offset, acked>>
    /\ UNCHANGED notLayer

CommitWriteErr ==
    /\ spc = "commit"
    /\ sent' = Append(sent, WriteContentRequest("Commit", 0))
    /\ spc' = propagate(spc)
    /\ UNCHANGED <<body, content_length, buffer, offset, acked>>
    /\ UNCHANGED notLayer

CommitAck == AckOk("commit_ack", "ok")
CommitAckErr == AckErr("commit_ack")

NextLayer ==
    \/ LayerGetErr \/ LayerGetOk
    \/ StreamChunk \/ StreamErr \/ StreamEnd
    \/ DrainWrite \/ DrainWriteErr \/ DrainAck \/ DrainAckErr \/ DrainDone
    \/ TailWrite \/ TailWriteErr \/ TailAck \/ TailAckErr \/ TailEmpty
    \/ CommitWrite \/ CommitWriteErr \/ CommitAck \/ CommitAckErr

InitOfLayer == IdlePull /\ IdleLease /\ InitLayer /\ IdleUpload /\ IdleLogin /\ IdleBuild /\ IdleFunctions

SpecLayer == InitOfLayer /\ [][NextLayer]_vars

\* C8: within one layer upload at most one message is unacknowledged at any
\* time, every message's offset equals the number of bytes carried by the
\* Writes sent before it (so offsets never decrease), a Commit is never
\* followed by another message, and a successful upload ends with an
\* acknowledged Commit.
C8_WritesInOrderCommitLast ==
    /\ Len(sent) - acked \in {0, 1}
    /\ sent # << >> => sent[1].offset = 0
    /\ \A i \in 1..(Len(sent) - 1) :
          /\ sent[i].action = "Write"
          /\ sent[i + 1].offset = sent[i].offset + sent[i].len
    /\ spc = "ok" =>
          /\ sent # << >>
          /\ sent[Len(sent)].action = "Commit"
          /\ acked = Len(sent)

C8_Witness ==
    /\ spc = "ok"
    /\ Len(sent) >= 4
    /\ sent[Len(sent) - 1].action = "Write"
    /\ sent[Len(sent) - 1].len < CHUNK_SIZE
    /\ sent[Len(sent)].offset > CHUNK_SIZE

\* C36: a Commit is sent only after the whole body was read and every Write
\* before it was sent and acknowledged: when the body stream or a Write fails
\* partway, the function returns the error and no Commit is ever sent.
C36_NoCommitAfterFailure ==
    /\ (\E i \in 1..Len(sent) : sent[i].action = "Commit") =>
          /\ body = << >>
          /\ buffer = 0
          /\ acked >= Len(sent) - 1
    /\ (spc = "ok") => (\E i \in 1..Len(sent) : sent[i].action = "Commit")

\* C36 witness: the function returned an error after part of the layer was
\* written and acknowledged, and no Commit was sent
C36_Witness ==
    /\ spc = "err"
    /\ acked >= 1
    /\ Len(sent) >= 2
    /\ \A i \in 1..Len(sent) : sent[i].action = "Write"

\* the number of bytes the Write messages of a sequence carry
RECURSIVE BytesSent(_)
BytesSent(q) ==
    IF q = << >> THEN 0
    ELSE (IF Head(q).action = "Write" THEN Head(q).len ELSE 0) + BytesSent(Tail(q))

\* C35: the Commit that ends a streamed layer write carries a total equal to
\* the accumulated number of bytes of the layer's Write chunks, and the
\* layer's labels, with or without a Content-Length header.
C35_CommitTotalIsBytesSent ==
    \A i \in 1..Len(sent) :
        sent[i].action = "Commit" =>
            /\ sent[i].total = BytesSent(SubSeq(sent, 1, i - 1))
            /\ sent[i].labels = LayerLabels

----------------------------------------------------------------------------
(* OciUploader::blob_exists and OciUploader::upload_blob (src/uploader.rs)  *)

\* upload_blob is called at most MaxCalls times on one OciUploader
MaxCalls == 3

\* the statuses a HEAD can answer: StatusCode::OK, not found, server error
HeadStatuses == {200, 404, 500}
\* the statuses a PUT can answer: StatusCode::CREATED, server error
PutStatuses == {201, 500}

\* the known-digest test always fails
blob_known_never(d) == FALSE

\* self.uploaded_blobs.contains(&blob.digest)
blob_known(d) == \E i \in 1..Len(uploaded_blobs) : uploaded_blobs[i] = d

\* upload_blob returns
Return(r) ==
    /\ upload_result' = r
    /\ upc' = "idle"

\* a caller invokes upload_blob(&blob); blob_exists is entered
CallUploadBlob ==
    /\ upc = "idle"
    /\ calls < MaxCalls
    /\ \E d \in Blobs : blob' = d
    /\ calls' = calls + 1
    /\ upc' = "blob_exists"
    /\ upload_result' = "none"
    /\ head_status' = 0
    /\ UNCHANGED <<uploaded_blobs, head_ok, posts, puts>>
    /\ UNCHANGED notUpload

\* blob_exists: the digest is in uploaded_blobs: Ok(true), upload_blob Ok(())
AlreadyUploaded ==
    /\ upc = "blob_exists"
    /\ blob_known(blob)
    /\ Return("Ok")
    /\ UNCHANGED <<blob, uploaded_blobs, head_status, head_ok, posts, puts, calls>>
    /\ UNCHANGED notUpload

\* blob_exists: the HEAD could not be sent, send().await? returns the error
HeadSendErr ==
    /\ upc = "blob_exists"
    /\ ~blob_known(blob)
    /\ Return("Err")
    /\ UNCHANGED <<blob, uploaded_blobs, head_status, head_ok, posts, puts, calls>>
    /\ UNCHANGED notUpload

\* blob_exists: the HEAD was answered; exists = (status == OK); if exists the
\* digest is pushed and upload_blob returns Ok, else upload_blob goes on
HeadResponse ==
    /\ upc = "blob_exists"
    /\ ~blob_known(blob)
    /\ \E status \in HeadStatuses :
          /\ head_status' = status
          /\ IF status = 200
             THEN /\ uploaded_blobs' = Append(uploaded_blobs, blob)
                  /\ head_ok' = head_ok \cup {blob}
                  /\ Return("Ok")
             ELSE /\ upc' = "post"
                  /\ UNCHANGED <<uploaded_blobs, head_ok, upload_result>>
    /\ UNCHANGED <<blob, posts, puts, calls>>
    /\ UNCHANGED notUpload

\* POST /v2/<name>/blobs/uploads/ answered with a Location header
PostOk ==
    /\ upc = "post"
    /\ posts' = [posts EXCEPT ![blob] = @ + 1]
    /\ upc' = "put"
    /\ UNCHANGED <<blob, uploaded_blobs, head_status, head_ok, puts, upload_result,
                   calls>>
    /\ UNCHANGED notUpload

\* the POST failed, or its answer had no usable Location header
PostErr ==
    /\ upc = "post"
    /\ posts' = [posts EXCEPT ![blob] = @ + 1]
    /\ Return("Err")
    /\ UNCHANGED <<blob, uploaded_blobs, head_status, head_ok, puts, calls>>
    /\ UNCHANGED notUpload

\* PUT <location>?digest=<digest> answered: CREATED records the digest and
\* returns Ok, any other status returns Err
PutResponse ==
    /\ upc = "put"
    /\ puts' = [puts EXCEPT ![blob] = @ + 1]
    /\ \E status \in PutStatuses :
          IF status = 201
          THEN /\ uploaded_blobs' = Append(uploaded_blobs, blob)
               /\ Return("Ok")
          ELSE /\ Return("Err")
               /\ UNCHANGED uploaded_blobs
    /\ UNCHANGED <<blob, head_status, head_ok, posts, calls>>
    /\ UNCHANGED notUpload

\* the PUT could not be sent
PutSendErr ==
    /\ upc = "put"
    /\ puts' = [puts EXCEPT ![blob] = @ + 1]
    /\ Return("Err")
    /\ UNCHANGED <<blob, uploaded_blobs, head_status, head_ok, posts, calls>>
    /\ UNCHANGED notUpload

NextUpload ==
    \/ CallUploadBlob
    \/ AlreadyUploaded \/ HeadSendErr \/ HeadResponse
    \/ PostOk \/ PostErr
    \/ PutResponse \/ PutSendErr

InitOfUpload == IdlePull /\ IdleLease /\ IdleLayer /\ IdleUpload /\ IdleLogin /\ IdleBuild /\ IdleFunctions

SpecUpload == InitOfUpload /\ [][NextUpload]_vars

\* C9: in any sequence of upload_blob calls, no step issues a POST or a PUT
\* for a digest that is in the uploaded set or whose HEAD has answered 200.
C9_NoUploadOfKnownBlob ==
    [][\A d \in Blobs :
          ((\E i \in DOMAIN uploaded_blobs : uploaded_blobs[i] = d) \/ d \in head_ok) =>
              (posts'[d] = posts[d] /\ puts'[d] = puts[d])]_vars

C9_Witness ==
    /\ upc = "idle"
    /\ calls = MaxCalls
    /\ blob = "d1"
    /\ upload_result = "Ok"
    /\ head_status = 0
    /\ puts["d1"] = 1
    /\ "d2" \in head_ok
    /\ posts["d2"] = 0

\* C10 (as claimed): once the HEAD of a call has answered a 5xx status, the
\* call has returned an error without going on to the POST or the PUT, and the
\* digest is not in the uploaded set.
C10_Head5xxIsError ==
    head_status >= 500 =>
        /\ upc = "idle"
        /\ upload_result = "Err"
        /\ ~blob_known(blob)

----------------------------------------------------------------------------
(* OciClient::login and OciClient::login_to_container_registry             *)
(* (src/client.rs)                                                         *)

\* the image_permissions arguments login is called with: one entry, a group
\* of two images, two registry groups, and a Push on ghcr.io
LoginRequests ==
    { << <<"d1", "Pull">> >>,
      << <<"d1", "Push">> >>,
      << <<"d1", "Pull">>, <<"d2", "Push">> >>,
      << <<"d1", "Push">>, <<"g1", "Pull">> >>,
      << <<"g1", "Push">> >> }

InitLogin ==
    /\ image_bearer_map = [p \in ImagePermission |-> NoBearer]
    /\ map_lock = NoHolder
    /\ credentials \in [Registries -> BOOLEAN]
    /\ login_pc = [c \in LoginCalls |-> "idle"]
    /\ requested = [c \in LoginCalls |-> << >>]
    /\ gpc = [c \in LoginCalls |-> [r \in Registries |-> "none"]]
    /\ todo = [c \in LoginCalls |-> [r \in Registries |-> {}]]
    /\ curp = [c \in LoginCalls |-> [r \in Registries |-> NoPermission]]
    /\ token = [c \in LoginCalls |-> [r \in Registries |-> NoBearer]]
    /\ token_requests = [c \in LoginCalls |-> [r \in Registries |-> << >>]]
    /\ done_before = [c \in LoginCalls |-> {}]

\* the later request replaces the entry
merge_entry_last_wins(existing, permissions) == permissions

\* .entry(..).and_modify(|existing| if Pull and perm is Push then Push)
\*           .or_insert(perm.permissions): "none" is a vacant entry
merge_entry(existing, permissions) ==
    IF existing = "none" THEN permissions
    ELSE IF existing = "Pull" /\ permissions = "Push" THEN "Push"
    ELSE existing

\* for perm in image_permissions { merged_permissions.entry(..) ... }
RECURSIVE merge_loop(_, _)
merge_loop(merged_permissions, perms) ==
    IF perms = << >> THEN merged_permissions
    ELSE merge_loop(
             [merged_permissions EXCEPT
                 ![Head(perms)[1]] = merge_entry(@, Head(perms)[2])],
             Tail(perms))

merged_permissions(perms) == merge_loop([ref \in Refs |-> "none"], perms)

\* image_permissions_by_registry[registry]: the merged entries of one registry
image_permissions_by_registry(perms, registry) ==
    {p \in ImagePermission :
        /\ registry_of(p[1]) = registry
        /\ merged_permissions(perms)[p[1]] = p[2]}

\* the bearer a token exchange of group (c, registry) yields
NewBearer(c, registry) == <<c, registry>>
\* get_base64_bearer(&credentials.password)
Base64Bearer == <<0, "base64">>
TokenErr == <<0, "Err">>

\* a caller invokes login(&image_permissions): merge, group, one future per group
LoginCall(c) ==
    /\ login_pc[c] = "idle"
    /\ \A b \in LoginCalls : b < c => login_pc[b] # "idle"
    /\ \E perms \in LoginRequests :
          /\ requested' = [requested EXCEPT ![c] = perms]
          /\ gpc' = [gpc EXCEPT ![c] = [r \in Registries |->
                        IF image_permissions_by_registry(perms, r) = {}
                        THEN "none" ELSE "start"]]
          /\ todo' = [todo EXCEPT ![c] = [r \in Registries |->
                        image_permissions_by_registry(perms, r)]]
    /\ login_pc' = [login_pc EXCEPT ![c] = "running"]
    /\ done_before' = [done_before EXCEPT ![c] =
                          {b \in LoginCalls : login_pc[b] = "returned"}]
    /\ UNCHANGED <<image_bearer_map, map_lock, credentials, curp, token, token_requests>>
    /\ UNCHANGED notLogin

\* a step of group (c, r) that touches neither the map nor the call's arguments
GroupStep(c, r, next, tok, reqs) ==
    /\ gpc' = [gpc EXCEPT ![c][r] = next]
    /\ token' = [token EXCEPT ![c][r] = tok]
    /\ token_requests' = [token_requests EXCEPT ![c][r] = reqs]
    /\ UNCHANGED <<image_bearer_map, map_lock, credentials, login_pc, requested, todo,
                   curp, done_before>>
    /\ UNCHANGED notLogin

\* login_to_github_registry with credentials: no request is made
GithubBearer(c, r) ==
    /\ gpc[c][r] = "start"
    /\ is_github_registry(r)
    /\ credentials[r]
    /\ GroupStep(c, r, "lock", Base64Bearer, token_requests[c][r])

\* how the first request of login_to_regular_registry(.., true) is made
FirstRequestKind(r) == IF credentials[r] THEN "cred" ELSE "anon"

\* login_to_regular_registry(.., use_credentials = true) returned Ok(token)
FirstRequestOk(c, r) ==
    /\ gpc[c][r] = "start"
    /\ ~(is_github_registry(r) /\ credentials[r])
    /\ GroupStep(c, r, "lock", NewBearer(c, r),
                 Append(token_requests[c][r], FirstRequestKind(r)))

\* the github arm returns the Err; the regular arm's Err(_) => retries
after_failure(r) == IF is_github_registry(r) THEN "done" ELSE "retry"

\* login_to_regular_registry(.., true) returned Err
FirstRequestErr(c, r) ==
    /\ gpc[c][r] = "start"
    /\ ~(is_github_registry(r) /\ credentials[r])
    /\ GroupStep(c, r, after_failure(r),
                 IF after_failure(r) = "done" THEN TokenErr ELSE token[c][r],
                 Append(token_requests[c][r], FirstRequestKind(r)))

\* login_to_regular_registry(.., false) returned Ok(token)
RetryOk(c, r) ==
    /\ gpc[c][r] = "retry"
    /\ GroupStep(c, r, "lock", NewBearer(c, r), Append(token_requests[c][r], "anon"))

\* login_to_regular_registry(.., false) returned Err: the token is dropped
RetryErr(c, r) ==
    /\ gpc[c][r] = "retry"
    /\ GroupStep(c, r, "done", TokenErr, Append(token_requests[c][r], "anon"))

\* a step of the store loop of group (c, r)
StoreStep(c, r, next) ==
    /\ gpc' = [gpc EXCEPT ![c][r] = next]
    /\ UNCHANGED <<credentials, login_pc, requested, token, token_requests, done_before>>
    /\ UNCHANGED notLogin

\* if let Ok(new_bearer) = &token: self.image_bearer_map.lock().await
StoreLock(c, r) ==
    /\ gpc[c][r] = "lock"
    /\ map_lock = NoHolder
    /\ map_lock' = <<c, r>>
    /\ StoreStep(c, r, "insert")
    /\ UNCHANGED <<image_bearer_map, todo, curp>>

\* the Push entry gets no Pull twin
after_insert_no_pull(permissions) == "insert"

\* if image_permission.permissions == ImagePermissions::Push: a second insert
after_insert(permissions) == IF permissions = "Push" THEN "insert_pull" ELSE "insert"

\* for image_permission in image_permissions: map.insert(image_permission, bearer);
\* the Vec comes from a HashMap, in any order
StoreInsert(c, r) ==
    /\ gpc[c][r] = "insert"
    /\ \E p \in todo[c][r] :
          /\ image_bearer_map' = [image_bearer_map EXCEPT ![p] = token[c][r]]
          /\ todo' = [todo EXCEPT ![c][r] = @ \ {p}]
          /\ curp' = [curp EXCEPT ![c][r] = IF p[2] = "Push" THEN p ELSE NoPermission]
          /\ StoreStep(c, r, after_insert(p[2]))
    /\ UNCHANGED map_lock

\* map.insert(ImagePermission { full_image, permissions: Pull }, bearer)
StoreInsertPull(c, r) ==
    /\ gpc[c][r] = "insert_pull"
    /\ image_bearer_map' =
           [image_bearer_map EXCEPT ![<<curp[c][r][1], "Pull">>] = token[c][r]]
    /\ curp' = [curp EXCEPT ![c][r] = NoPermission]
    /\ StoreStep(c, r, "insert")
    /\ UNCHANGED <<map_lock, todo>>

\* the loop is over: the MutexGuard is dropped, return Ok(())
StoreUnlock(c, r) ==
    /\ gpc[c][r] = "insert"
    /\ todo[c][r] = {}
    /\ map_lock' = NoHolder
    /\ StoreStep(c, r, "done")
    /\ UNCHANGED <<image_bearer_map, todo, curp>>

\* the group's future returns the Err of its token exchange
group_result_propagated(tok) == IF tok = TokenErr THEN "Err" ELSE "Ok"

\* login_to_container_registry ends in Ok(()) whatever `token` is: the Err of
\* the exchange is dropped by `if let Ok(new_bearer) = &token`
group_result(tok) == "Ok"

\* the groups of call c whose future has returned an Err
failed_groups(c) ==
    {r \in Registries : gpc[c][r] = "done" /\ group_result(token[c][r]) = "Err"}

\* try_join_all(futures).await?; Ok(())
login_result(c) == IF failed_groups(c) # {} THEN "failed" ELSE "returned"

\* try_join_all resolves when every future returned Ok, or at the first Err,
\* and then drops the futures that are still pending (a dropped future
\* releases the MutexGuard it holds)
LoginReturn(c) ==
    /\ login_pc[c] = "running"
    /\ \/ \A r \in Registries : gpc[c][r] \in {"none", "done"}
       \/ failed_groups(c) # {}
    /\ login_pc' = [login_pc EXCEPT ![c] = login_result(c)]
    /\ gpc' = [gpc EXCEPT ![c] = [r \in Registries |->
                  IF gpc[c][r] \in {"none", "done"} THEN gpc[c][r] ELSE "dropped"]]
    /\ map_lock' = IF /\ map_lock # NoHolder
                      /\ map_lock[1] = c
                      /\ gpc[c][map_lock[2]] # "done"
                   THEN NoHolder ELSE map_lock
    /\ UNCHANGED <<image_bearer_map, credentials, requested, todo, curp,
                   token, token_requests, done_before>>
    /\ UNCHANGED notLogin

\* auth_headers: map.get(&image_permission) is None => Err("No bearer token
\* found for image permission"); Some(bearer) => the Authorization header
MissingBearer == <<0, "No bearer token found">>
auth_headers(image_permission) ==
    IF image_bearer_map[image_permission] = NoBearer THEN MissingBearer
    ELSE image_bearer_map[image_permission]

NextLogin ==
    \E c \in LoginCalls :
        \/ LoginCall(c)
        \/ LoginReturn(c)
        \/ \E r \in Registries :
              \/ GithubBearer(c, r)
              \/ FirstRequestOk(c, r) \/ FirstRequestErr(c, r)
              \/ RetryOk(c, r) \/ RetryErr(c, r)
              \/ StoreLock(c, r) \/ StoreInsert(c, r) \/ StoreInsertPull(c, r)
              \/ StoreUnlock(c, r)

InitOfLogin == IdlePull /\ IdleLease /\ IdleLayer /\ IdleUpload /\ InitLogin /\ IdleBuild /\ IdleFunctions

SpecLogin == InitOfLogin /\ [][NextLogin]_vars

\* C11 (as claimed): when a login call that obtained a token for (ref, p) had
\* returned before a second login call for the same (ref, p) began, the two
\* calls together made at most one token-endpoint request for that registry.
C11_SecondLoginUsesCache ==
    \A c1 \in LoginCalls, c2 \in LoginCalls, p \in ImagePermission :
        ( /\ c1 \in done_before[c2]
          /\ \E i \in DOMAIN requested[c1] : requested[c1][i] = p
          /\ \E i \in DOMAIN requested[c2] : requested[c2][i] = p
          /\ login_pc[c2] = "returned"
          /\ token[c1][registry_of(p[1])] \notin {NoBearer, TokenErr} )
        => Len(token_requests[c1][registry_of(p[1])])
               + Len(token_requests[c2][registry_of(p[1])]) <= 1

\* C13: whenever the cache's lock is free, an image with a Push entry has a
\* Pull entry too; and when a group's store loop ends, every (image,
\* permission) pair of the group, and the Pull twin of every Push pair, holds
\* the bearer that group obtained. Login calls and groups run concurrently.
C13_PushImpliesPullAndGroupStored ==
    [][ /\ map_lock' = NoHolder =>
              \A ref \in Refs :
                  image_bearer_map'[<<ref, "Push">>] # NoBearer
                      => image_bearer_map'[<<ref, "Pull">>] # NoBearer
        /\ \A c \in LoginCalls, r \in Registries :
              (gpc[c][r] = "insert" /\ gpc'[c][r] = "done") =>
                  \A p \in ImagePermission :
                      (registry_of(p[1]) = r
                         /\ \E i \in DOMAIN requested[c] : requested[c][i][1] = p[1])
                      => /\ image_bearer_map'[<<p[1], "Pull">>] = token[c][r]
                         /\ (\E i \in DOMAIN requested[c] : requested[c][i] = <<p[1], "Push">>)
                                => image_bearer_map'[<<p[1], "Push">>] = token[c][r]
      ]_vars

\* C13 witness: a group of two images (one Push) has been stored by call 1
\* while call 2 was running
C13_Witness ==
    /\ gpc[1]["docker"] = "done"
    /\ login_pc[2] = "running"
    /\ image_bearer_map[<<"d1", "Pull">>] = NewBearer(1, "docker")
    /\ image_bearer_map[<<"d2", "Push">>] = NewBearer(1, "docker")
    /\ image_bearer_map[<<"d2", "Pull">>] = NewBearer(1, "docker")

\* C14 (as claimed): for a regular registry no group makes more than two token
\* requests; a second request only follows a first that carried credentials
\* and is anonymous; and a failed credentialed first request is always
\* followed by that retry before the group gives up.
C14_AnonymousRetryOnlyAfterCredentials ==
    \A c \in LoginCalls, r \in Registries :
        ~is_github_registry(r) =>
            /\ Len(token_requests[c][r]) <= 2
            /\ Len(token_requests[c][r]) = 2 => token_requests[c][r] = <<"cred", "anon">>
            /\ (gpc[c][r] = "done" /\ token[c][r] = TokenErr
                  /\ token_requests[c][r][1] = "cred")
                   => Len(token_requests[c][r]) = 2

\* C39: login never returns an error because a token exchange failed; when a
\* call has returned and one of its registry groups failed its exchange, the
\* pairs of every other group of the call are in the cache, and auth_headers
\* answers the missing-bearer error for the pairs of the failed group (unless
\* another login call cached a bearer for the pair).
C39_FailedExchangeShowsOnlyInAuthHeaders ==
    \A c \in LoginCalls :
        /\ login_pc[c] # "failed"
        /\ \A r \in Registries :
              ( /\ login_pc[c] \in {"returned", "failed"}
                /\ gpc[c][r] = "done"
                /\ token[c][r] = TokenErr )
              => /\ \A r2 \in Registries \ {r} :
                        (gpc[c][r2] # "none" /\ token[c][r2] # TokenErr) =>
                            \A p \in image_permissions_by_registry(requested[c], r2) :
                                auth_headers(p) # MissingBearer
                 /\ \A p \in image_permissions_by_registry(requested[c], r) :
                        \/ auth_headers(p) = MissingBearer
                        \/ \E b \in LoginCalls \ {c} :
                              auth_headers(p) = token[b][r]

\* C39 witness: call 1 asked for docker and ghcr, the docker exchange failed,
\* the call returned, the ghcr pair is cached and the docker pair is not
C39_Witness ==
    /\ login_pc[1] = "returned"
    /\ requested[1] = << <<"d1", "Push">>, <<"g1", "Pull">> >>
    /\ token[1]["docker"] = TokenErr
    /\ image_bearer_map[<<"g1", "Pull">>] = token[1]["ghcr"]
    /\ auth_headers(<<"g1", "Pull">>) # MissingBearer
    /\ auth_headers(<<"d1", "Push">>) = MissingBearer

----------------------------------------------------------------------------
(* The merge of requested permissions at the head of OciClient::login      *)

RequestLists == UNION {[1..n -> ImagePermission] : n \in 1..MaxRequests}

InitMerge ==
    /\ image_bearer_map = [p \in ImagePermission |-> NoBearer]
    /\ map_lock = NoHolder
    /\ credentials = [r \in Registries |-> FALSE]
    /\ login_pc = [c \in LoginCalls |-> "idle"]
    /\ requested \in {[c \in LoginCalls |-> IF c = 1 THEN perms ELSE << >>] :
                         perms \in RequestLists}
    /\ gpc = [c \in LoginCalls |-> [r \in Registries |-> "none"]]
    /\ todo = [c \in LoginCalls |-> [r \in Registries |-> {}]]
    /\ curp = [c \in LoginCalls |-> [r \in Registries |-> NoPermission]]
    /\ token = [c \in LoginCalls |-> [r \in Registries |-> NoBearer]]
    /\ token_requests = [c \in LoginCalls |-> [r \in Registries |-> << >>]]
    /\ done_before = [c \in LoginCalls |-> {}]

\* login up to the grouping: merged_permissions, image_permissions,
\* image_permissions_by_registry
MergeCall ==
    /\ login_pc[1] = "idle"
    /\ login_pc' = [login_pc EXCEPT ![1] = "merged"]
    /\ todo' = [todo EXCEPT ![1] = [r \in Registries |->
                   image_permissions_by_registry(requested[1], r)]]
    /\ UNCHANGED <<image_bearer_map, map_lock, credentials, requested, gpc, curp, token,
                   token_requests, done_before>>
    /\ UNCHANGED notLogin

InitOfMerge == IdlePull /\ IdleLease /\ IdleLayer /\ IdleUpload /\ InitMerge /\ IdleBuild /\ IdleFunctions

SpecMerge == InitOfMerge /\ [][MergeCall]_vars

\* C12: the merged list holds exactly one entry for every image some request
\* names and none for any other image; the entry is Push if some request for
\* the image asked for Push and Pull otherwise, whatever the order of the
\* requests and however often they repeat.
C12_MergeIsMaxPerImage ==
    login_pc[1] = "merged" =>
        \A ref \in Refs :
            LET entries == {p \in todo[1][registry_of(ref)] : p[1] = ref}
                asked == {requested[1][i][2] :
                             i \in {j \in DOMAIN requested[1] : requested[1][j][1] = ref}}
            IN  /\ Cardinality(entries) = IF asked = {} THEN 0 ELSE 1
                /\ asked # {} =>
                      entries = {<<ref, IF "Push" \in asked THEN "Push" ELSE "Pull">>}

C12_Witness ==
    /\ login_pc[1] = "merged"
    /\ requested[1] = << <<"d1", "Push">>, <<"d1", "Pull">>, <<"g1", "Pull">> >>
    /\ todo[1]["docker"] = {<<"d1", "Push">>}
    /\ todo[1]["ghcr"] = {<<"g1", "Pull">>}

----------------------------------------------------------------------------
(* PlanExecution::execute (src/execution.rs), after the login              *)

\* a plan has at most MaxPlatforms platforms, each at most MaxPlanLayers
\* layers, and at most MaxTags tags
MaxPlatforms == 2
MaxPlanLayers == 1
MaxTags == 2

TagNames == {"latest", "v1"}
TagLists == UNION {[1..n -> TagNames] : n \in 0..MaxTags}

\* byte strings: <<encoding, tar>>, the tar stream t1 or t2 as it is ("tar")
\* or compressed
Tars == {"t1", "t2"}
Encodings == {"tar", "zstd", "gzip"}
\* Encoder::new(..).write_all(&tar_buffer).finish()
zstd_encode(tar_buffer) == <<"zstd", tar_buffer[2]>>
\* the tar stream a layer blob holds
decompressed(bytes) == <<"tar", bytes[2]>>
\* digest::sha256_digest
sha256_digest(bytes) == <<"sha256", bytes>>

\* (compressed_data, Digest { compressed_digest, uncompressed_digest })
compress_tar(tar_buffer) ==
    [data |-> zstd_encode(tar_buffer),
     compressed_digest |-> sha256_digest(zstd_encode(tar_buffer)),
     uncompressed_digest |-> sha256_digest(tar_buffer)]

\* the files a layer of type Layer may name: a tar, or a compressed tar
LayerFiles == Encodings \X Tars

\* ImagePlanLayerType::Layer: the file as it is, one digest for both
read_layer_file(layer_data) ==
    [data |-> layer_data,
     compressed_digest |-> sha256_digest(layer_data),
     uncompressed_digest |-> sha256_digest(layer_data)]

\* the image a layer of type Image names: two layers, its manifest and config
SourceLayerBytes == << <<"gzip", "t1">>, <<"zstd", "t2">> >>
SourceManifestLayers == [i \in 1..2 |-> sha256_digest(SourceLayerBytes[i])]
SourceDiffIds == [i \in 1..2 |-> sha256_digest(decompressed(SourceLayerBytes[i]))]

\* ImagePlanLayerType::Image: tar_layers
image_tar_layers ==
    [i \in 1..2 |->
        [data |-> SourceLayerBytes[i],
         compressed_digest |-> SourceManifestLayers[i],
         uncompressed_digest |-> SourceDiffIds[i]]]

InitBuild ==
    /\ bpc = "platform"
    /\ plat = 0
    /\ nlayers = 0
    /\ tar_buffers = << >>
    /\ built_layers = << >>
    /\ pushed_bytes = << >>
    /\ config_diff_ids = << >>
    /\ manifest_layers = << >>
    /\ built_manifests = << >>
    /\ tags \in TagLists
    /\ tag_idx = 0
    /\ reqlog = << >>
    /\ build_result = "none"

\* the failed call is ignored
after_upload_ignore(ok, next) == next

\* self.uploader.upload_*(..).await?
after_upload(ok, next) == IF ok THEN next ELSE "returned"

\* an uploader call of this kind, for this platform and tag, ended Ok or Err
Upload(kind, tag, ok, next) ==
    /\ reqlog' = Append(reqlog, [kind |-> kind, platform |-> plat, tag |-> tag, ok |-> ok])
    /\ bpc' = after_upload(ok, next)
    /\ build_result' = IF ok THEN build_result ELSE "Err"

\* for platform in &self.plan.platforms: let mut layers = vec![]
NextPlatform ==
    /\ bpc = "platform"
    /\ plat < MaxPlatforms
    /\ plat' = plat + 1
    /\ nlayers' = 0
    /\ built_layers' = << >>
    /\ pushed_bytes' = << >>
    /\ config_diff_ids' = << >>
    /\ manifest_layers' = << >>
    /\ bpc' = "layer"
    /\ UNCHANGED <<tar_buffers, built_manifests, tags, tag_idx, reqlog, build_result>>
    /\ UNCHANGED notBuild

\* a plan layer was turned into tar_buffers
LayerRead(buffers, requests) ==
    /\ bpc = "layer"
    /\ nlayers < MaxPlanLayers
    /\ tar_buffers' = buffers
    /\ reqlog' = reqlog \o requests
    /\ bpc' = "push"
    /\ UNCHANGED <<plat, nlayers, built_layers, pushed_bytes, config_diff_ids,
                   manifest_layers, built_manifests, tags, tag_idx, build_result>>
    /\ UNCHANGED notBuild

\* ImagePlanLayerType::Directory: the tar is built and compressed
LayerDirectory == \E t \in Tars : LayerRead(<< compress_tar(<<"tar", t>>) >>, << >>)

\* ImagePlanLayerType::Layer: fs::read(&layer.source)
LayerFile == \E f \in LayerFiles : LayerRead(<< read_layer_file(f) >>, << >>)

\* ImagePlanLayerType::Image: index, manifest, config and layers downloaded
LayerImage ==
    LayerRead(image_tar_layers,
              << [kind |-> "download", platform |-> plat, tag |-> "none", ok |-> TRUE] >>)

\* ImagePlanLayerType::Image: a download failed, .unwrap() panics
LayerImagePanic ==
    /\ bpc = "layer"
    /\ nlayers < MaxPlanLayers
    /\ reqlog' = Append(reqlog, [kind |-> "download", platform |-> plat, tag |-> "none",
                                  ok |-> FALSE])
    /\ bpc' = "panicked"
    /\ UNCHANGED <<plat, nlayers, tar_buffers, built_layers, pushed_bytes, config_diff_ids,
                   manifest_layers, built_manifests, tags, tag_idx, build_result>>
    /\ UNCHANGED notBuild

\* for (tar_buffer, digest) in tar_buffers: build_layer, upload_blob(..)?,
\* layers.push(new_layer)
PushLayer ==
    /\ bpc = "push"
    /\ tar_buffers # << >>
    /\ \E ok \in BOOLEAN :
          /\ Upload("layer", "none", ok, "push")
          /\ IF ok
             THEN /\ pushed_bytes' = Append(pushed_bytes, Head(tar_buffers).data)
                  /\ built_layers' = Append(built_layers,
                         [digest |-> Head(tar_buffers).compressed_digest,
                          uncompressed_digest |-> Head(tar_buffers).uncompressed_digest])
                  /\ tar_buffers' = Tail(tar_buffers)
             ELSE UNCHANGED <<pushed_bytes, built_layers, tar_buffers>>
    /\ UNCHANGED <<plat, nlayers, config_diff_ids, manifest_layers, built_manifests, tags,
                   tag_idx>>
    /\ UNCHANGED notBuild

\* the plan layer's buffers are all pushed: next plan layer
PushDone ==
    /\ bpc = "push"
    /\ tar_buffers = << >>
    /\ nlayers' = nlayers + 1
    /\ bpc' = "layer"
    /\ UNCHANGED <<plat, tar_buffers, built_layers, pushed_bytes, config_diff_ids,
                   manifest_layers, built_manifests, tags, tag_idx, reqlog, build_result>>
    /\ UNCHANGED notBuild

\* the layer loop is over: ImageConfig with rootfs.diff_ids from the layers
AssembleConfig ==
    /\ bpc = "layer"
    /\ config_diff_ids' = [i \in DOMAIN built_layers |-> built_layers[i].uncompressed_digest]
    /\ bpc' = "config"
    /\ UNCHANGED <<plat, nlayers, tar_buffers, built_layers, pushed_bytes, manifest_layers,
                   built_manifests, tags, tag_idx, reqlog, build_result>>
    /\ UNCHANGED notBuild

\* upload_blob(config_blob)?, then the ImageManifest and manifests.push
PushConfig ==
    /\ bpc = "config"
    /\ \E ok \in BOOLEAN :
          /\ Upload("config", "none", ok, "manifest_tags")
          /\ IF ok
             THEN /\ manifest_layers' = [i \in DOMAIN built_layers |-> built_layers[i].digest]
                  /\ built_manifests' = Append(built_manifests, plat)
                  /\ tag_idx' = 1
             ELSE UNCHANGED <<manifest_layers, built_manifests, tag_idx>>
    /\ UNCHANGED <<plat, nlayers, tar_buffers, built_layers, pushed_bytes, config_diff_ids,
                   tags>>
    /\ UNCHANGED notBuild

\* for tag in &self.plan.tags: upload_manifest(manifest_data)?
PutManifest ==
    /\ bpc = "manifest_tags"
    /\ tag_idx <= Len(tags)
    /\ \E ok \in BOOLEAN : Upload("manifest", tags[tag_idx], ok, "manifest_tags")
    /\ tag_idx' = tag_idx + 1
    /\ UNCHANGED <<plat, nlayers, tar_buffers, built_layers, pushed_bytes, config_diff_ids,
                   manifest_layers, built_manifests, tags>>
    /\ UNCHANGED notBuild

\* the platform's manifest is under every tag: next platform
ManifestTagsDone ==
    /\ bpc = "manifest_tags"
    /\ tag_idx > Len(tags)
    /\ bpc' = "platform"
    /\ UNCHANGED <<plat, nlayers, tar_buffers, built_layers, pushed_bytes, config_diff_ids,
                   manifest_layers, built_manifests, tags, tag_idx, reqlog, build_result>>
    /\ UNCHANGED notBuild

\* the platform loop is over: the ImageIndex is assembled
AssembleIndex ==
    /\ bpc = "platform"
    /\ bpc' = "index_tags"
    /\ tag_idx' = 1
    /\ UNCHANGED <<plat, nlayers, tar_buffers, built_layers, pushed_bytes, config_diff_ids,
                   manifest_layers, built_manifests, tags, reqlog, build_result>>
    /\ UNCHANGED notBuild

\* the index goes under the first tag only
index_tags_first_only(plan_tags) ==
    IF plan_tags = << >> THEN << >> ELSE << Head(plan_tags) >>

\* the tags the index loop runs over: &self.plan.tags
index_tags(plan_tags) == plan_tags

\* for tag in &self.plan.tags: upload_manifest(index_data)?
PutIndex ==
    /\ bpc = "index_tags"
    /\ tag_idx <= Len(index_tags(tags))
    /\ \E ok \in BOOLEAN : Upload("index", index_tags(tags)[tag_idx], ok, "index_tags")
    /\ tag_idx' = tag_idx + 1
    /\ UNCHANGED <<plat, nlayers, tar_buffers, built_layers, pushed_bytes, config_diff_ids,
                   manifest_layers, built_manifests, tags>>
    /\ UNCHANGED notBuild

\* Ok(())
BuildReturn ==
    /\ bpc = "index_tags"
    /\ tag_idx > Len(index_tags(tags))
    /\ bpc' = "returned"
    /\ build_result' = "Ok"
    /\ UNCHANGED <<plat, nlayers, tar_buffers, built_layers, pushed_bytes, config_diff_ids,
                   manifest_layers, built_manifests, tags, tag_idx, reqlog>>
    /\ UNCHANGED notBuild

NextBuild ==
    \/ NextPlatform
    \/ LayerDirectory
    \/ LayerFile
    \/ LayerImage
    \/ LayerImagePanic
    \/ PushLayer
    \/ PushDone
    \/ AssembleConfig
    \/ PushConfig
    \/ PutManifest
    \/ ManifestTagsDone
    \/ AssembleIndex
    \/ PutIndex
    \/ BuildReturn

InitOfBuild ==
    IdlePull /\ IdleLease /\ IdleLayer /\ IdleUpload /\ IdleLogin /\ InitBuild /\ IdleFunctions

SpecBuild == InitOfBuild /\ [][NextBuild]_vars

\* C15: for every platform built and every layer type, manifest.layers and
\* config.rootfs.diff_ids have the same length and order, layers[i].digest is
\* the sha256 of the bytes pushed as blob i, and diff_ids[i] is the sha256 of
\* the tar obtained by decompressing those bytes.
C15_DigestsMatchPushedBytes ==
    bpc = "manifest_tags" =>
        /\ Len(manifest_layers) = Len(pushed_bytes)
        /\ Len(config_diff_ids) = Len(pushed_bytes)
        /\ \A i \in DOMAIN pushed_bytes :
              /\ manifest_layers[i] = sha256_digest(pushed_bytes[i])
              /\ config_diff_ids[i] = sha256_digest(decompressed(pushed_bytes[i]))

\* the requests of this kind in the log
RequestsOf(kind) == {j \in DOMAIN reqlog : reqlog[j].kind = kind}

\* every layer blob and the config blob of a platform are pushed before its
\* manifest is PUT
BlobsBeforeManifest ==
    /\ \A j \in RequestsOf("manifest") :
          /\ \E k \in 1..(j - 1) :
                /\ reqlog[k].kind = "config"
                /\ reqlog[k].platform = reqlog[j].platform
                /\ reqlog[k].ok
          /\ \A k \in RequestsOf("layer") \cup RequestsOf("config") :
                reqlog[k].platform = reqlog[j].platform => k < j
    /\ bpc = "manifest_tags" =>
          Cardinality({k \in RequestsOf("layer") : reqlog[k].platform = plat /\ reqlog[k].ok})
              = Len(manifest_layers)

\* every platform manifest the index refers to was PUT before the index
ManifestsBeforeIndex ==
    \A j \in RequestsOf("index") :
        \A i \in DOMAIN built_manifests :
            \E k \in 1..(j - 1) :
                /\ reqlog[k].kind = "manifest"
                /\ reqlog[k].platform = built_manifests[i]
                /\ reqlog[k].ok

\* the index PUTs under this tag
IndexPuts(t) == {j \in RequestsOf("index") : reqlog[j].tag = t}

\* C16 (as claimed): layer and config blobs are pushed before the platform's
\* manifest is PUT, the platform manifests before the index, and in a build
\* that succeeds the index is PUT exactly once under every tag of the plan.
C16_IndexOnceUnderEveryTag ==
    /\ BlobsBeforeManifest
    /\ ManifestsBeforeIndex
    /\ build_result = "Ok" =>
          \A k \in DOMAIN tags : Cardinality(IndexPuts(tags[k])) = 1

\* C16 (amended): layer and config blobs are pushed before the platform's
\* manifest is PUT, the platform manifests before the index, and in a build
\* that succeeds the index is PUT once for every entry of the plan's tag
\* list, in the order of the list: a tag listed twice gets two PUTs.
C16_IndexOncePerTagEntry ==
    /\ BlobsBeforeManifest
    /\ ManifestsBeforeIndex
    /\ build_result = "Ok" =>
          /\ Cardinality(RequestsOf("index")) = Len(tags)
          /\ \A j \in RequestsOf("index") :
                reqlog[j].tag = tags[j - (Len(reqlog) - Len(tags))]

\* a two-platform build with layers and two tags succeeded
C16_Witness ==
    /\ build_result = "Ok"
    /\ Len(tags) = 2
    /\ Len(built_manifests) = 2
    /\ RequestsOf("layer") # {}
    /\ Cardinality(RequestsOf("index")) = 2

\* the pushes: blobs, manifests and the index
Pushes == RequestsOf("layer") \cup RequestsOf("config") \cup RequestsOf("manifest")
              \cup RequestsOf("index")

\* C17: when pushing a blob or a manifest fails, execute returns an error and
\* issues no further registry request; in particular no index PUT follows.
C17_PushFailureAbortsBuild ==
    \A j \in Pushes :
        ~reqlog[j].ok =>
            /\ j = Len(reqlog)
            /\ bpc = "returned"
            /\ build_result = "Err"

\* the second platform's manifest PUT failed after the first platform was built
C17_Witness ==
    /\ reqlog # << >>
    /\ ~reqlog[Len(reqlog)].ok
    /\ reqlog[Len(reqlog)].kind = "manifest"
    /\ reqlog[Len(reqlog)].platform = 2
    /\ RequestsOf("index") = {}
    /\ build_result = "Err"

----------------------------------------------------------------------------
(* merge_image_plan_configs (src/spec/plan.rs)                             *)

\* a map field has at most MaxKeys keys
MaxKeys == 1

MapKeys == {"k1", "k2"}
MapValues == {"a", "b"}
\* HashMap<String, _> values with at most MaxKeys keys
Maps ==
    UNION {[ks -> MapValues] : ks \in {x \in SUBSET MapKeys : Cardinality(x) <= MaxKeys}}

\* Option<T>: None is the empty sequence, Some(x) the sequence of x
Option(S) == {<< >>} \cup {<<x>> : x \in S}
Users == {"root", "app"}

\* ImagePlanConfig, its scalar field user and its three map fields
ImagePlanConfig ==
    [user : Option(Users), exposed_ports : Option(Maps), volumes : Option(Maps),
     labels : Option(Maps)]

\* a.or_else(|| b)
or_else(a, b) == IF a # << >> THEN a ELSE b

\* HashMap::extend: every pair of other is inserted, replacing the value of a
\* key already present
extend(map, other) ==
    [k \in DOMAIN map \cup DOMAIN other |-> IF k \in DOMAIN other THEN other[k] ELSE map[k]]

\* the match on (&original.<field>, &plan.<field>) of a map field
merge_map_field(original, plan) ==
    CASE original # << >> /\ plan # << >> -> << extend(original[1], plan[1]) >>
      [] original = << >> /\ plan # << >> -> plan
      [] original # << >> /\ plan = << >> -> original
      [] OTHER -> << >>

merge_image_plan_configs(base, config) ==
    CASE base # << >> /\ config # << >> ->
            << [user |-> or_else(config[1].user, base[1].user),
                exposed_ports |-> merge_map_field(config[1].exposed_ports, base[1].exposed_ports),
                volumes |-> merge_map_field(config[1].volumes, base[1].volumes),
                labels |-> merge_map_field(config[1].labels, base[1].labels)] >>
      [] base # << >> /\ config = << >> -> base
      [] base = << >> /\ config # << >> -> config
      [] OTHER -> << >>

InitPlan ==
    /\ cpc = "idle"
    /\ base_config \in Option(ImagePlanConfig)
    /\ platform_config \in Option(ImagePlanConfig)
    /\ merged_config = << >>

\* let platform_config = merge_image_plan_configs(&self.plan.config, &platform.config)
MergeConfigs ==
    /\ cpc = "idle"
    /\ merged_config' = merge_image_plan_configs(base_config, platform_config)
    /\ cpc' = "merged"
    /\ UNCHANGED <<base_config, platform_config>>
    /\ UNCHANGED notPlan

InitOfPlan ==
    IdlePull /\ IdleLease /\ IdleLayer /\ IdleUpload /\ IdleLogin /\ IdleBuild /\ InitPlan
        /\ IdleParser /\ IdleRest

SpecPlan == InitOfPlan /\ [][MergeConfigs]_vars

\* the map an optional map field stands for: None has no keys
MapOf(field) == IF field = << >> THEN << >> ELSE field[1]

\* the map field is the key-wise union of the two, the platform's value kept
UnionPlatformWins(field, top, pl) ==
    /\ DOMAIN MapOf(field) = DOMAIN MapOf(top) \cup DOMAIN MapOf(pl)
    /\ \A k \in DOMAIN MapOf(field) :
          MapOf(field)[k] = IF k \in DOMAIN MapOf(pl) THEN MapOf(pl)[k] ELSE MapOf(top)[k]

\* C18: for every plan-level config C_top and platform-level config C_pl, each
\* map field (exposed ports, volumes, labels) of the merged config is the
\* key-wise union of the two maps, and for a key present in both the value of
\* C_pl is kept.
C18_MapsMergePlatformOverPlan ==
    (cpc = "merged" /\ base_config # << >> /\ platform_config # << >>) =>
        /\ merged_config # << >>
        /\ UnionPlatformWins(merged_config[1].exposed_ports,
                             base_config[1].exposed_ports, platform_config[1].exposed_ports)
        /\ UnionPlatformWins(merged_config[1].volumes,
                             base_config[1].volumes, platform_config[1].volumes)
        /\ UnionPlatformWins(merged_config[1].labels,
                             base_config[1].labels, platform_config[1].labels)

----------------------------------------------------------------------------
(* FullImageWithTag::from_image_name (src/parser.rs) and                   *)
(* OciDownloader::download_index (src/downloader.rs)                       *)

\* an image string has at most MaxSegments '/'-separated segments
MaxSegments == 4

\* strings are sequences of tokens: words without '/' or ':', and the two
\* separators
Words == {"ghcr.io", "owner", "app"}
TagWords == {"v1"}

\* s.contains(c)
contains(s, c) == \E i \in DOMAIN s : s[i] = c

\* position of the first c in s
find(s, c) == CHOOSE i \in DOMAIN s : s[i] = c /\ \A j \in 1..(i - 1) : s[j] # c

RECURSIVE split(_, _)
\* s.split(c).collect()
split(s, c) ==
    IF ~contains(s, c) THEN << s >>
    ELSE << SubSeq(s, 1, find(s, c) - 1) >> \o split(SubSeq(s, find(s, c) + 1, Len(s)), c)

RECURSIVE join(_, _)
\* parts.join(c)
join(parts, c) ==
    IF Len(parts) = 0 THEN << >>
    ELSE IF Len(parts) = 1 THEN parts[1]
    ELSE parts[1] \o << c >> \o join(Tail(parts), c)

\* the image strings: one to MaxSegments words joined by '/', then an optional
\* ':' and tag
ImageStrings ==
    {join([i \in DOMAIN segs |-> << segs[i] >>], "/") \o t :
        segs \in UNION {[1..n -> Words] : n \in 1..MaxSegments},
        t \in {<< >>} \cup {<< ":", w >> : w \in TagWords}}

from_image_name(name_in) ==
    LET parts == split(name_in, "/")
        registry == IF Len(parts) > 2 THEN << "https://" >> \o parts[1]
                    ELSE << "https://", "registry-1.docker.io" >>
        full_name == IF Len(parts) = 3 THEN join(SubSeq(parts, 2, Len(parts)), "/")
                     ELSE name_in
        by_colon == split(full_name, ":")
        name == by_colon[1]
        tag == IF Len(by_colon) >= 2 THEN by_colon[2] ELSE << "latest" >>
        library_name == IF contains(name_in, "/") THEN name
                        ELSE << "library", "/" >> \o name
        service == IF Len(parts) > 2 THEN parts[1] ELSE << "registry.docker.io" >>
    IN  [image |-> [registry |-> registry, image_name |-> name,
                    library_name |-> library_name, service |-> service],
         tag |-> tag]

\* format!("{}/v2/{}", self.registry, self.image_name)
get_image_url(full_image) == full_image.registry \o << "/v2/" >> \o full_image.image_name

InitParser ==
    /\ rpc = "idle"
    /\ image_name \in ImageStrings
    /\ parsed = << >>
    /\ index_url = << >>

\* let image = FullImageWithTag::from_image_name(&image_name)
Parse ==
    /\ rpc = "idle"
    /\ parsed' = << from_image_name(image_name) >>
    /\ rpc' = "parsed"
    /\ UNCHANGED <<image_name, index_url>>
    /\ UNCHANGED notParser

\* download_index(image): the GET of format!("{}/manifests/{}", get_image_url(), tag)
DownloadIndex ==
    /\ rpc = "parsed"
    /\ index_url' = get_image_url(parsed[1].image) \o << "/manifests/" >> \o parsed[1].tag
    /\ rpc' = "requested"
    /\ UNCHANGED <<image_name, parsed>>
    /\ UNCHANGED notParser

NextParser == Parse \/ DownloadIndex

InitOfParser ==
    IdlePull /\ IdleLease /\ IdleLayer /\ IdleUpload /\ IdleLogin /\ IdleBuild /\ IdlePlan
        /\ InitParser /\ IdleRest

SpecParser == InitOfParser /\ [][NextParser]_vars

\* the '/'-separated segments of the image string
Segments == split(image_name, "/")

\* what follows the registry host when there is one, else the whole string
TailOfName ==
    IF Len(Segments) >= 3 THEN join(SubSeq(Segments, 2, Len(Segments)), "/") ELSE image_name

\* C19: with 3 or more '/'-separated segments the registry is the first
\* segment and the name and library_name are the remainder after it, without
\* the registry host; with fewer segments the registry is
\* registry-1.docker.io; the tag is the text after ':' in the tail and
\* defaults to latest.
C19_RegistryNameTagParsed ==
    rpc # "idle" =>
        /\ Len(Segments) >= 3 =>
              /\ parsed[1].image.registry = << "https://" >> \o Segments[1]
              /\ parsed[1].image.image_name = split(TailOfName, ":")[1]
              /\ parsed[1].image.library_name = split(TailOfName, ":")[1]
        /\ Len(Segments) < 3 =>
              parsed[1].image.registry = << "https://", "registry-1.docker.io" >>
        /\ parsed[1].tag = IF contains(TailOfName, ":") THEN split(TailOfName, ":")[2]
                           ELSE << "latest" >>

\* C20: the URL the Downloader requests for the index is
\* <registry_url>/v2/<library_name>/manifests/<tag> of the parsed reference,
\* single-segment Docker Hub names (library/<name>) included.
C20_IndexUrlUsesLibraryName ==
    rpc = "requested" =>
        index_url = parsed[1].image.registry \o << "/v2/" >> \o parsed[1].image.library_name
                        \o << "/manifests/" >> \o parsed[1].tag

----------------------------------------------------------------------------
(* extract_tar (src/whiteout.rs): the layers of an image are extracted one *)
(* after the other into the same directory                                 *)

\* an image has NumLayers layers
NumLayers == 2

\* file names are sequences of tokens; ".wh." is the whiteout prefix
Wh == ".wh."
\* a path is a sequence of names below output_dir
D == << <<"d">> >>
Foo == << "foo" >>
Sub == << "sub" >>
MidName == << "a", Wh, "b" >>
Mangled == << "a", "b" >>
New == << "new" >>
Opq == << Wh, Wh, ".opq" >>

\* the tar entry of a file or a directory
Entry(path, kind) == [path |-> path, kind |-> kind]
\* the whiteout of name in directory dir
Whiteout(dir, name) == Entry(Append(dir, << Wh >> \o name), "file")

\* what the lower layer may hold in d: files foo, a.wh.b and ab, and the
\* directory sub with a file in it
LowerChoices ==
    { {Entry(Append(D, Foo), "file")},
      {Entry(Append(D, Sub), "dir"), Entry(Append(D, Sub) \o << Foo >>, "file")},
      {Entry(Append(D, MidName), "file")},
      {Entry(Append(D, Mangled), "file")} }

\* what the upper layer may hold in d: whiteouts of foo, sub and a.wh.b, the
\* opaque marker, and a new file
UpperChoices ==
    { {Whiteout(D, Foo)},
      {Whiteout(D, Sub)},
      {Whiteout(D, MidName)},
      {Entry(Append(D, Opq), "file")},
      {Entry(Append(D, New), "file")} }

\* every layer holds the directory d itself
LayersOf(choices) == {UNION c \cup {Entry(D, "dir")} : c \in SUBSET choices}

InitExtract ==
    /\ xpc = "idle"
    /\ xlayer = 0
    /\ layer_entries \in {<<l1, l2>> : l1 \in LayersOf(LowerChoices), l2 \in LayersOf(UpperChoices)}
    /\ output_dir = {}
    /\ walk_dir = {}

\* path.file_name()
file_name(path) == path[Len(path)]
\* path.parent()
parent(path) == SubSeq(path, 1, Len(path) - 1)
\* file_name.starts_with(".wh.")
starts_with_wh(name) == Len(name) >= 1 /\ name[1] = Wh

\* strips the leading ".wh." only
strip_prefix_wh(name) == Tail(name)

\* file_name.replace(".wh.", ""): every occurrence is removed
replace_wh(name) == SelectSeq(name, LAMBDA t : t # Wh)

\* path is at or below top
IsUnder(path, top) == Len(path) >= Len(top) /\ SubSeq(path, 1, Len(top)) = top

\* the tree holds an entry at path
exists(tree, path) == \E e \in tree : e.path = path

\* archive.unpack(output_dir): the layer's entries are written over the tree
unpack(tree, entries, n) ==
    {e \in tree : \A f \in entries : f.path # e.path}
        \cup {[path |-> f.path, kind |-> f.kind, layer |-> n] : f \in entries}

\* remove_dir_all or remove_file of the whiteout's target, then remove_file of
\* the whiteout itself
apply_whiteout(tree, path) ==
    LET whiteout_file == Append(parent(path), replace_wh(file_name(path)))
    IN  {e \in tree : ~IsUnder(e.path, whiteout_file) /\ e.path # path}

\* extract_tar begins for the next layer: the archive is unpacked and the walk starts
Unpack ==
    /\ xpc = "idle"
    /\ xlayer < NumLayers
    /\ xlayer' = xlayer + 1
    /\ output_dir' = unpack(output_dir, layer_entries[xlayer + 1], xlayer + 1)
    /\ walk_dir' = {e.path : e \in output_dir'}
    /\ xpc' = "walk"
    /\ UNCHANGED layer_entries
    /\ UNCHANGED notExtract

\* WalkDir yields an entry (in an order the file system decides); an entry
\* that is gone by now is skipped
WalkEntry ==
    /\ xpc = "walk"
    /\ \E path \in walk_dir :
          /\ walk_dir' = walk_dir \ {path}
          /\ output_dir' = IF exists(output_dir, path) /\ starts_with_wh(file_name(path))
                           THEN apply_whiteout(output_dir, path)
                           ELSE output_dir
    /\ UNCHANGED <<xpc, xlayer, layer_entries>>
    /\ UNCHANGED notExtract

\* the walk is over: Ok(())
WalkDone ==
    /\ xpc = "walk"
    /\ walk_dir = {}
    /\ xpc' = IF xlayer = NumLayers THEN "done" ELSE "idle"
    /\ UNCHANGED <<xlayer, layer_entries, output_dir, walk_dir>>
    /\ UNCHANGED notExtract

NextExtract == Unpack \/ WalkEntry \/ WalkDone

InitOfExtract ==
    IdlePull /\ IdleLease /\ IdleLayer /\ IdleUpload /\ IdleLogin /\ IdleBuild /\ IdlePlan
        /\ IdleParser /\ InitExtract /\ IdleDetect /\ IdleCache /\ IdleMatcher /\ IdleCreds /\ IdleSink /\ IdleLocks /\ IdleCounters /\ IdleCmdline

SpecExtract == InitOfExtract /\ [][NextExtract]_vars

\* the entries of the upper layer that are whiteouts: names beginning with .wh.
UpperWhiteouts == {e \in layer_entries[2] : starts_with_wh(file_name(e.path))}

\* C21: after extracting [L1, L2] into one directory, for every name X with an
\* entry .wh.X in directory D of L2, the tree holds no D/X and no D/.wh.X,
\* and D itself remains.
C21_WhiteoutRemovesSibling ==
    xpc = "done" =>
        \A e \in UpperWhiteouts :
            /\ ~exists(output_dir, Append(parent(e.path), strip_prefix_wh(file_name(e.path))))
            /\ ~exists(output_dir, e.path)
            /\ exists(output_dir, parent(e.path))

\* C22: when a layer holds the opaque marker .wh..wh..opq in D, extraction
\* removes every entry of D that came from lower layers and keeps the entries
\* of D this layer introduced.
C22_OpaqueRemovesLowerEntries ==
    (xpc = "done" /\ Entry(Append(D, Opq), "file") \in layer_entries[2]) =>
        /\ \A e \in output_dir : (IsUnder(e.path, D) /\ e.path # D) => e.layer = 2
        /\ \A f \in layer_entries[2] :
              ~starts_with_wh(file_name(f.path)) => exists(output_dir, f.path)

----------------------------------------------------------------------------
(* detect_media_type (src/archive.rs)                                      *)

\* buffers are up to MaxBufLen bytes long
MaxBufLen == 264

\* the offset and the length of the tar magic
UstarOffset == 257
UstarLen == 5
\* b"ustar"
Ustar == << 117, 115, 116, 97, 114 >>
GzipMagic == << 31, 139 >>
ZstdMagic == << 40, 181, 47, 253 >>

\* how a buffer begins: nothing special, the magics, parts of them, and
\* mixtures of the two
Prefixes ==
    { << >>, << 31 >>, GzipMagic, << 139, 31 >>, << 40, 181, 47 >>, ZstdMagic,
      << 31, 181, 47, 253 >>, << 40, 139 >> }

\* the lengths around the two checks
BufLens == {0, 1, 2, 3, 4, MaxBufLen - 3, MaxBufLen - 2, MaxBufLen - 1, MaxBufLen}

\* a buffer of len bytes that begins with prefix, holds ustar at offset 257
\* when with_ustar, and zero bytes elsewhere
Buffer(prefix, with_ustar, len) ==
    [i \in 1..len |->
        IF i <= Len(prefix) THEN prefix[i]
        ELSE IF with_ustar /\ i > UstarOffset /\ i <= UstarOffset + UstarLen
             THEN Ustar[i - UstarOffset]
             ELSE 0]

Buffers == {Buffer(p, u, n) : p \in Prefixes, u \in BOOLEAN, n \in BufLens}

\* &data[from..from + Len(magic)] == magic, for a buffer that holds those bytes
bytes_at(data, from, magic) == \A i \in 1..Len(magic) : data[from + i] = magic[i]

\* data.len() > 257 + 5
ustar_len_ok(data) == Len(data) > UstarOffset + UstarLen

detect_media_type(data) ==
    IF Len(data) >= 2 /\ bytes_at(data, 0, GzipMagic) THEN "OciImageLayerV1TarGzip"
    ELSE IF Len(data) >= 4 /\ bytes_at(data, 0, ZstdMagic) THEN "OciImageLayerV1TarZstd"
    ELSE IF ustar_len_ok(data) /\ bytes_at(data, UstarOffset, Ustar) THEN "OciImageLayerV1Tar"
    ELSE "DetectError"

InitDetect ==
    /\ dpc = "idle"
    /\ buf \in Buffers
    /\ detected = "none"

\* detect_media_type(buf)
Detect ==
    /\ dpc = "idle"
    /\ detected' = detect_media_type(buf)
    /\ dpc' = "detected"
    /\ UNCHANGED buf
    /\ UNCHANGED notDetect

InitOfDetect ==
    IdlePull /\ IdleLease /\ IdleLayer /\ IdleUpload /\ IdleLogin /\ IdleBuild /\ IdlePlan
        /\ IdleParser /\ IdleExtract /\ InitDetect /\ IdleCache /\ IdleMatcher /\ IdleCreds /\ IdleSink /\ IdleLocks /\ IdleCounters /\ IdleCmdline

SpecDetect == InitOfDetect /\ [][Detect]_vars

\* the buffer starts with these bytes
StartsWith(magic) == Len(buf) >= Len(magic) /\ SubSeq(buf, 1, Len(magic)) = magic

\* the buffer is of length 262 or more and bytes 257..261 are "ustar"
HoldsUstar ==
    /\ Len(buf) >= UstarOffset + UstarLen
    /\ SubSeq(buf, UstarOffset + 1, UstarOffset + UstarLen) = Ustar

\* C23: detect_media_type returns tar+gzip when the buffer starts with 1F 8B,
\* else tar+zstd when it starts with 28 B5 2F FD, else bare tar when bytes
\* 257..261 are "ustar" (for every buffer of length 262 or more), and an
\* error in every other case.
C23_MediaTypeByMagic ==
    dpc = "detected" =>
        detected = IF StartsWith(GzipMagic) THEN "OciImageLayerV1TarGzip"
                   ELSE IF StartsWith(ZstdMagic) THEN "OciImageLayerV1TarZstd"
                   ELSE IF HoldsUstar THEN "OciImageLayerV1Tar"
                   ELSE "DetectError"

----------------------------------------------------------------------------
(* The blob cache of OciDownloader (src/downloader.rs): download_manifest, *)
(* download_config and download_layer                                      *)

\* at most MaxDownloads calls are made on one downloader
MaxDownloads == 3

DownloadKinds == {"manifest", "config", "layer"}
\* the registry's blobs; the bytes of "bad" are not JSON
CacheDigests == {"d1", "bad"}
\* the bytes the registry (or the cache file) holds under a digest
BytesOf(digest) == <<"bytes", digest>>
\* serde_json::from_slice(..) is Ok
parses(digest) == digest # "bad"

KIdle == <<"none", "none">>

InitCache ==
    /\ kpc = "idle"
    /\ kcall = KIdle
    /\ no_cache \in BOOLEAN
    /\ blob_cache = {}
    /\ write_failed = FALSE
    /\ kresult = KIdle
    /\ kcalls = 0

\* the call ends with this result
KReturn(res) ==
    /\ kresult' = res
    /\ kpc' = "returned"

\* a download function is called
CallDownload ==
    /\ kpc \in {"idle", "returned"}
    /\ kcalls < MaxDownloads
    /\ \E k \in DownloadKinds, d \in CacheDigests : kcall' = <<k, d>>
    /\ kcalls' = kcalls + 1
    /\ kpc' = "load"
    /\ write_failed' = FALSE
    /\ kresult' = KIdle
    /\ UNCHANGED <<no_cache, blob_cache>>
    /\ UNCHANGED notCache

\* load_blob_cache is Some and (for a manifest or config) the blob parses
CacheHit ==
    /\ kpc = "load"
    /\ ~no_cache
    /\ kcall[2] \in blob_cache
    /\ kcall[1] = "layer" \/ parses(kcall[2])
    /\ KReturn(<<"Ok", BytesOf(kcall[2])>>)
    /\ UNCHANGED <<kcall, no_cache, blob_cache, write_failed, kcalls>>
    /\ UNCHANGED notCache

\* load_blob_cache is None (no_cache, no file, or the read fails), or the
\* cached blob does not parse: the GET is sent
CacheMiss ==
    /\ kpc = "load"
    /\ kpc' = "get"
    /\ UNCHANGED <<kcall, no_cache, blob_cache, write_failed, kresult, kcalls>>
    /\ UNCHANGED notCache

\* auth_headers, send or bytes() fails, or the status is not a success
GetErr ==
    /\ kpc = "get"
    /\ KReturn(<<"Err", "download">>)
    /\ UNCHANGED <<kcall, no_cache, blob_cache, write_failed, kcalls>>
    /\ UNCHANGED notCache

\* let json = response.bytes().await?
GetOk ==
    /\ kpc = "get"
    /\ kpc' = "write"
    /\ UNCHANGED <<kcall, no_cache, blob_cache, write_failed, kresult, kcalls>>
    /\ UNCHANGED notCache

\* self.write_blob_cache(digest, &json)?
after_write(ok) == IF ok THEN "parse" ELSE "returned"

\* write_blob_cache: Ok(()) at once when no_cache, else std::fs::write(..)?
WriteBlobCache ==
    /\ kpc = "write"
    /\ \E ok \in (IF no_cache THEN {TRUE} ELSE BOOLEAN) :
          /\ kpc' = after_write(ok)
          /\ blob_cache' = IF ok /\ ~no_cache THEN blob_cache \cup {kcall[2]} ELSE blob_cache
          /\ write_failed' = ~ok
          /\ kresult' = IF after_write(ok) = "returned" THEN <<"Err", "cache write">>
                        ELSE kresult
    /\ UNCHANGED <<kcall, no_cache, kcalls>>
    /\ UNCHANGED notCache

\* serde_json::from_slice(&json)? and Ok((result, json)); Ok(bytes.to_vec())
\* for a layer
ParseAndReturn ==
    /\ kpc = "parse"
    /\ KReturn(IF kcall[1] = "layer" \/ parses(kcall[2])
               THEN <<"Ok", BytesOf(kcall[2])>>
               ELSE <<"Err", "parse">>)
    /\ UNCHANGED <<kcall, no_cache, blob_cache, write_failed, kcalls>>
    /\ UNCHANGED notCache

NextCache ==
    \/ CallDownload
    \/ CacheHit
    \/ CacheMiss
    \/ GetErr
    \/ GetOk
    \/ WriteBlobCache
    \/ ParseAndReturn

InitOfCache ==
    IdlePull /\ IdleLease /\ IdleLayer /\ IdleUpload /\ IdleLogin /\ IdleBuild /\ IdlePlan
        /\ IdleParser /\ IdleExtract /\ IdleDetect /\ InitCache /\ IdleMatcher /\ IdleCreds /\ IdleSink /\ IdleLocks /\ IdleCounters /\ IdleCmdline

SpecCache == InitOfCache /\ [][NextCache]_vars

\* C24: a failure to write a freshly downloaded manifest, config or layer to
\* the blob cache never makes the download fail: the call still returns the
\* downloaded bytes (when they parse, for a manifest or config).
C24_CacheWriteFailureIsNotFatal ==
    (kpc = "returned" /\ write_failed /\ (kcall[1] = "layer" \/ parses(kcall[2]))) =>
        kresult = <<"Ok", BytesOf(kcall[2])>>

----------------------------------------------------------------------------
(* PlatformMatcher::find_manifest (src/platform.rs), called for an image   *)
(* layer of a plan platform (src/execution.rs)                             *)

\* an index lists at most MaxManifests manifests
MaxManifests == 3

Architectures == {"arm", "amd64"}
Variants == {"v6", "v7"}
\* Option<String>: None is the empty sequence
OptVariants == {<< >>} \cup {<< v >> : v \in Variants}
\* Manifest.platform: Option<Platform>
OptPlatforms ==
    {<< >>} \cup {<< [architecture |-> a, variant |-> v] >> : a \in Architectures,
                                                               v \in OptVariants}
ManifestLists == UNION {[1..n -> OptPlatforms] : n \in 0..MaxManifests}

InitMatcher ==
    /\ mpc = "idle"
    /\ plan_platform \in [architecture : Architectures, variant : OptVariants]
    /\ index_manifests \in ManifestLists
    /\ found = << >>

\* PlatformMatcher::match_architecture(platform.architecture.clone())
match_architecture(platform) == [platform |-> platform.architecture]

\* self.platform == *image_platform
matches(matcher, image_platform) == matcher.platform = image_platform

\* the manifests the loop returns at: platform is Some and matches
hits(matcher, manifests) ==
    {i \in DOMAIN manifests :
        manifests[i] # << >> /\ matches(matcher, manifests[i][1].architecture)}

\* PlatformMatcher::find_manifest
find_first(matcher, manifests) ==
    IF hits(matcher, manifests) = {} THEN << >>
    ELSE << CHOOSE i \in hits(matcher, manifests) :
                \A j \in hits(matcher, manifests) : i <= j >>

\* platform_matcher.find_manifest(&index.manifests)
FindManifest ==
    /\ mpc = "idle"
    /\ found' = find_first(match_architecture(plan_platform), index_manifests)
    /\ mpc' = "found"
    /\ UNCHANGED <<plan_platform, index_manifests>>
    /\ UNCHANGED notMatcher

InitOfMatcher ==
    IdlePull /\ IdleLease /\ IdleLayer /\ IdleUpload /\ IdleLogin /\ IdleBuild /\ IdlePlan
        /\ IdleParser /\ IdleExtract /\ IdleDetect /\ IdleCache /\ InitMatcher /\ IdleCreds /\ IdleSink /\ IdleLocks /\ IdleCounters /\ IdleCmdline

SpecMatcher == InitOfMatcher /\ [][FindManifest]_vars

\* the manifests of the wanted architecture and, when the platform names a
\* variant, of that variant
Eligible ==
    {i \in DOMAIN index_manifests :
        /\ index_manifests[i] # << >>
        /\ index_manifests[i][1].architecture = plan_platform.architecture
        /\ plan_platform.variant # << >> =>
              index_manifests[i][1].variant = plan_platform.variant}

\* C25: find_manifest returns the first element whose platform architecture
\* equals the matcher's, None when no element matches, and when a variant is
\* provided only elements with an equal variant are eligible.
C25_FirstMatchingManifest ==
    mpc = "found" =>
        found = IF Eligible = {} THEN << >>
                ELSE << CHOOSE i \in Eligible : \A j \in Eligible : i <= j >>

----------------------------------------------------------------------------
(* OciClient::get_credentials (src/client.rs) and the credential each      *)
(* token request of login_to_container_registry carries                    *)

CredRegistries == Registries \cup {"quay"}

InitCreds ==
    /\ qpc = "idle"
    /\ hostname_to_login \in SUBSET CredRegistries
    /\ default_login \in BOOLEAN
    /\ github_token_env \in BOOLEAN
    /\ target_registry \in CredRegistries
    /\ sent_requests = << >>
    /\ qbearer = "none"

\* get_credentials: the credential found for the registry, or Err
get_credentials(registry_url) ==
    IF registry_url \in hostname_to_login THEN "configured"
    ELSE IF default_login THEN "default"
    ELSE IF github_token_env THEN "GITHUB_TOKEN"
    ELSE "Err"

\* what request.basic_auth carries in login_to_regular_registry
basic_auth(registry_url, use_credentials) ==
    IF use_credentials /\ get_credentials(registry_url) # "Err"
    THEN get_credentials(registry_url)
    ELSE "anonymous"

\* the token request of login_to_regular_registry is sent and ends Ok or Err
SendTokenRequest(use_credentials, ok, on_err) ==
    /\ sent_requests' = Append(sent_requests,
                               [registry |-> target_registry,
                                auth |-> basic_auth(target_registry, use_credentials)])
    /\ qpc' = IF ok THEN "stored" ELSE on_err
    /\ qbearer' = IF ok THEN "Bearer token" ELSE qbearer
    /\ UNCHANGED <<hostname_to_login, default_login, github_token_env, target_registry>>
    /\ UNCHANGED notCreds

\* login_to_github_registry with credentials: the bearer is the base64 of the
\* password, no request is made
GithubWithCredentials ==
    /\ qpc = "idle"
    /\ is_github_registry(target_registry)
    /\ get_credentials(target_registry) # "Err"
    /\ qbearer' = "Bearer base64"
    /\ qpc' = "stored"
    /\ UNCHANGED <<hostname_to_login, default_login, github_token_env, target_registry,
                   sent_requests>>
    /\ UNCHANGED notCreds

\* login_to_github_registry without credentials: the regular login, once
GithubRegularLogin ==
    /\ qpc = "idle"
    /\ is_github_registry(target_registry)
    /\ get_credentials(target_registry) = "Err"
    /\ \E ok \in BOOLEAN : SendTokenRequest(TRUE, ok, "failed")

\* login_to_regular_registry(.., true)
RegularFirstRequest ==
    /\ qpc = "idle"
    /\ ~is_github_registry(target_registry)
    /\ \E ok \in BOOLEAN : SendTokenRequest(TRUE, ok, "retry")

\* login_to_regular_registry(.., false)
RegularRetry ==
    /\ qpc = "retry"
    /\ \E ok \in BOOLEAN : SendTokenRequest(FALSE, ok, "failed")

NextCreds ==
    \/ GithubWithCredentials
    \/ GithubRegularLogin
    \/ RegularFirstRequest
    \/ RegularRetry

InitOfCreds ==
    IdlePull /\ IdleLease /\ IdleLayer /\ IdleUpload /\ IdleLogin /\ IdleBuild /\ IdlePlan
        /\ IdleParser /\ IdleExtract /\ IdleDetect /\ IdleCache /\ IdleMatcher /\ InitCreds /\ IdleSink /\ IdleLocks /\ IdleCounters /\ IdleCmdline

SpecCreds == InitOfCreds /\ [][NextCreds]_vars

\* C26: GITHUB_TOKEN is a credential for ghcr.io only: for any other registry
\* without configured credentials the token request is anonymous and never
\* carries GITHUB_TOKEN.
C26_GithubTokenOnlyForGhcr ==
    \A i \in DOMAIN sent_requests :
        /\ sent_requests[i].auth = "GITHUB_TOKEN" => is_github_registry(sent_requests[i].registry)
        /\ (/\ ~is_github_registry(sent_requests[i].registry)
            /\ sent_requests[i].registry \notin hostname_to_login
            /\ ~default_login) => sent_requests[i].auth = "anonymous"

----------------------------------------------------------------------------
(* upload_content_to_containerd and create_image_in_containerd             *)
(* (src/compose/pull/containerd_utils.rs) against the containerd sink      *)

MaxSinkCalls == 4

SinkDigests == {"d1", "d2"}
SinkLabels == {"l1", "l2"}
SinkMediaTypes == {"index", "manifest"}
SinkImages ==
    [registry : {"docker", "ghcr"}, library_name : {"app"}, tag : {"v1", "v2"}]
SinkTargets == [media_type : SinkMediaTypes, digest : SinkDigests]

InitSink ==
    /\ sink_pc = "idle"
    /\ sink_content = {}
    /\ sink_images = {}
    /\ sink_ncalls = 0
    /\ sink_op = "none"
    /\ sink_arg = << >>
    /\ content_before = {}
    /\ images_before = {}
    /\ sink_status = "none"
    /\ sink_result = "none"
    /\ put_held_ok = FALSE

\* the digests a content store holds
held_digests(content) == {c[1] : c \in content}

\* the names an image store binds
bound_names(images) == {b[1] : b \in images}

\* the targets an image store binds the name to
targets_of(images, name) == {b[2] : b \in {x \in images : x[1] = name}}

\* the name of the Image in CreateImageRequest and UpdateImageRequest
containerd_name(full_image) == <<"docker.io", full_image.library_name, full_image.tag>>

\* a write that aborts on AlreadyExists like on any other status
on_write_status_strict(status) == IF status = "Ok" THEN "Ok" ELSE "Err"

\* what upload_content_to_containerd returns for the status of content().write
on_write_status(status) ==
    IF status = "Ok" \/ status = "AlreadyExists" THEN "Ok" ELSE "Err"

\* the statuses the content store can answer a committed write with
write_statuses(digest) ==
    IF digest \in held_digests(sink_content)
    THEN {"AlreadyExists", "Unavailable"}
    ELSE {"Ok", "Unavailable"}

\* the statuses the image store can answer a create with
create_statuses(name) ==
    IF name \in bound_names(sink_images)
    THEN {"AlreadyExists", "Unavailable"}
    ELSE {"Ok", "Unavailable"}

SinkReady == sink_pc \in {"idle", "returned"} /\ sink_ncalls < MaxSinkCalls

\* upload_content_to_containerd(digest, data, labels)
UploadContent ==
    /\ SinkReady
    /\ \E digest \in SinkDigests, labels \in SinkLabels :
       \E status \in write_statuses(digest) :
          /\ sink_op' = "put"
          /\ sink_arg' = <<digest, labels>>
          /\ content_before' = sink_content
          /\ sink_status' = status
          /\ sink_content' = IF status = "Ok"
                             THEN sink_content \cup {<<digest, labels>>}
                             ELSE sink_content
          /\ sink_result' = on_write_status(status)
          /\ put_held_ok' = (put_held_ok \/ (/\ digest \in held_digests(sink_content)
                                             /\ on_write_status(status) = "Ok"))
    /\ sink_pc' = "returned"
    /\ sink_ncalls' = sink_ncalls + 1
    /\ UNCHANGED <<sink_images, images_before>>
    /\ UNCHANGED notSink

\* create_image_in_containerd: the images().create call
CreateImage ==
    /\ SinkReady
    /\ \E full_image \in SinkImages, target \in SinkTargets :
       \E status \in create_statuses(containerd_name(full_image)) :
          /\ sink_op' = "name"
          /\ sink_arg' = <<containerd_name(full_image), target>>
          /\ images_before' = sink_images
          /\ sink_status' = status
          /\ sink_images' = IF status = "Ok"
                            THEN sink_images \cup {<<containerd_name(full_image), target>>}
                            ELSE sink_images
          /\ sink_result' = CASE status = "Ok" -> "Ok"
                              [] status = "AlreadyExists" -> "none"
                              [] OTHER -> "Err"
          /\ sink_pc' = IF status = "AlreadyExists" THEN "update" ELSE "returned"
    /\ sink_ncalls' = sink_ncalls + 1
    /\ UNCHANGED <<sink_content, content_before, put_held_ok>>
    /\ UNCHANGED notSink

\* create_image_in_containerd: the images().update call after AlreadyExists
UpdateImage ==
    /\ sink_pc = "update"
    /\ \E status \in {"Ok", "Unavailable"} :
          /\ sink_status' = status
          /\ sink_images' = IF status = "Ok"
                            THEN {b \in sink_images : b[1] # sink_arg[1]} \cup {sink_arg}
                            ELSE sink_images
          /\ sink_result' = IF status = "Ok" THEN "Ok" ELSE "Err"
    /\ sink_pc' = "returned"
    /\ UNCHANGED <<sink_content, sink_ncalls, sink_op, sink_arg, content_before,
                   images_before, put_held_ok>>
    /\ UNCHANGED notSink

NextSink ==
    \/ UploadContent
    \/ CreateImage
    \/ UpdateImage

InitOfSink ==
    IdlePull /\ IdleLease /\ IdleLayer /\ IdleUpload /\ IdleLogin /\ IdleBuild /\ IdlePlan
        /\ IdleParser /\ IdleExtract /\ IdleDetect /\ IdleCache /\ IdleMatcher /\ IdleCreds /\ InitSink /\ IdleLocks /\ IdleCounters /\ IdleCmdline

SpecSink == InitOfSink /\ [][NextSink]_vars

\* C27: unless the sink is unavailable, an upload of a digest the sink already
\* holds returns Ok and leaves the content store as it was, and a create of a
\* name that is already bound returns Ok with the name bound to the new target
\* and to nothing else.
C27_AlreadyExistsIsSuccess ==
    (sink_pc = "returned" /\ sink_status # "Unavailable") =>
        /\ (sink_op = "put" /\ sink_arg[1] \in held_digests(content_before)) =>
              (sink_result = "Ok" /\ sink_content = content_before)
        /\ (sink_op = "name" /\ sink_arg[1] \in bound_names(images_before)) =>
              (sink_result = "Ok" /\ targets_of(sink_images, sink_arg[1]) = {sink_arg[2]})

C27_Witness ==
    /\ sink_pc = "returned"
    /\ sink_op = "name"
    /\ sink_status = "Ok"
    /\ sink_result = "Ok"
    /\ sink_arg[1] \in bound_names(images_before)
    /\ sink_arg[2] \notin targets_of(images_before, sink_arg[1])
    /\ targets_of(sink_images, sink_arg[1]) = {sink_arg[2]}
    /\ put_held_ok

----------------------------------------------------------------------------
(* The mutexes of the pull state (src/compose/pull/mod.rs): each closure   *)
(* and statement of a worker as the sequence of guards it takes and drops  *)

Locks == {"existing_digests", "download_queue", "digest_to_image",
          "total_bytes_to_download", "downloaded_bytes"}

acquire(lock) == <<"acquire", lock>>
release(lock) == <<"release", lock>>

\* a statement that locks a mutex and drops the guard at its end
statement(lock) == <<acquire(lock), release(lock)>>

\* while let Some(downloadable) = { download_queue.lock().await.pop() }
locks_of_pop == statement("download_queue")

\* *downloaded_bytes.lock().await += ..; progress_bar.set_position(..) in the
\* Manifest arm and in download_layer_to_containerd
locks_of_downloaded_bytes ==
    statement("downloaded_bytes") \o statement("downloaded_bytes")

\* the Index arm's counters and its check of existing_digests
locks_of_index_arm ==
    statement("total_bytes_to_download") \o statement("downloaded_bytes")
        \o statement("total_bytes_to_download") \o statement("downloaded_bytes")
        \o statement("existing_digests")

\* download_complete taking existing_digests inside its digest_to_image block
locks_of_download_complete_nested(size) ==
    <<acquire("digest_to_image")>> \o statement("existing_digests")
        \o <<release("digest_to_image")>>

\* download_complete: the digest_to_image block, then the counter when size != 0
locks_of_download_complete(size) ==
    statement("digest_to_image")
        \o (IF size # 0
            THEN statement("downloaded_bytes") \o statement("downloaded_bytes")
            ELSE << >>)

\* queue_if_not_download: the existing_digests guard lives to the end of the
\* closure, the download_queue guard to the end of the else block
locks_of_queue_if_not_download(known) ==
    IF known
    THEN statement("existing_digests")
    ELSE <<acquire("existing_digests")>>
            \o statement("digest_to_image")
            \o <<acquire("download_queue")>>
            \o statement("total_bytes_to_download")
            \o statement("total_bytes_to_download")
            \o <<release("download_queue"), release("existing_digests")>>

Routines ==
    {locks_of_pop, locks_of_index_arm, locks_of_downloaded_bytes}
        \cup {locks_of_download_complete(size) : size \in {0, 1}}
        \cup {locks_of_queue_if_not_download(known) : known \in BOOLEAN}

InitLocks ==
    /\ lk_routine = [w \in Workers |-> << >>]
    /\ lk_pos = [w \in Workers |-> 1]
    /\ lk_held = [w \in Workers |-> {}]

\* the worker comes to one of the closures or statements
Enter(w) ==
    /\ lk_routine[w] = << >>
    /\ \E routine \in Routines : lk_routine' = [lk_routine EXCEPT ![w] = routine]
    /\ lk_pos' = [lk_pos EXCEPT ![w] = 1]
    /\ UNCHANGED lk_held
    /\ UNCHANGED notLocks

\* mutex.lock().await: the task goes on once no task holds the guard
Acquire(w) ==
    /\ lk_pos[w] <= Len(lk_routine[w])
    /\ lk_routine[w][lk_pos[w]][1] = "acquire"
    /\ \A v \in Workers : lk_routine[w][lk_pos[w]][2] \notin lk_held[v]
    /\ lk_held' = [lk_held EXCEPT ![w] = @ \cup {lk_routine[w][lk_pos[w]][2]}]
    /\ lk_pos' = [lk_pos EXCEPT ![w] = @ + 1]
    /\ UNCHANGED lk_routine
    /\ UNCHANGED notLocks

\* the guard goes out of scope
Release(w) ==
    /\ lk_pos[w] <= Len(lk_routine[w])
    /\ lk_routine[w][lk_pos[w]][1] = "release"
    /\ lk_held' = [lk_held EXCEPT ![w] = @ \ {lk_routine[w][lk_pos[w]][2]}]
    /\ lk_pos' = [lk_pos EXCEPT ![w] = @ + 1]
    /\ UNCHANGED lk_routine
    /\ UNCHANGED notLocks

\* the closure or statement is over
Leave(w) ==
    /\ lk_routine[w] # << >>
    /\ lk_pos[w] > Len(lk_routine[w])
    /\ lk_routine' = [lk_routine EXCEPT ![w] = << >>]
    /\ lk_pos' = [lk_pos EXCEPT ![w] = 1]
    /\ UNCHANGED lk_held
    /\ UNCHANGED notLocks

NextLocks ==
    \E w \in Workers :
        \/ Enter(w)
        \/ Acquire(w)
        \/ Release(w)
        \/ Leave(w)

InitOfLocks ==
    IdlePull /\ IdleLease /\ IdleLayer /\ IdleUpload /\ IdleLogin /\ IdleBuild /\ IdlePlan
        /\ IdleParser /\ IdleExtract /\ IdleDetect /\ IdleCache /\ IdleMatcher /\ IdleCreds /\ IdleSink /\ InitLocks /\ IdleCounters /\ IdleCmdline

SpecLocks == InitOfLocks /\ [][NextLocks]_vars

\* C29: in every interleaving no worker holds two of the pull-state locks at
\* the same time.
C29_NeverTwoLocks ==
    \A w \in Workers : Cardinality(lk_held[w]) <= 1

\* the worker is at a lock().await whose mutex another worker holds
Waiting(w) ==
    /\ lk_pos[w] <= Len(lk_routine[w])
    /\ lk_routine[w][lk_pos[w]][1] = "acquire"
    /\ \E v \in Workers \ {w} : lk_routine[w][lk_pos[w]][2] \in lk_held[v]

\* a worker that holds a lock takes another one only under existing_digests,
\* and then one of digest_to_image, download_queue, total_bytes_to_download
AcquiredInOrder ==
    \A w \in Workers :
        (/\ lk_pos[w] <= Len(lk_routine[w])
         /\ lk_routine[w][lk_pos[w]][1] = "acquire"
         /\ lk_held[w] # {}) =>
            /\ "existing_digests" \in lk_held[w]
            /\ lk_routine[w][lk_pos[w]][2] \in
                  {"digest_to_image", "download_queue", "total_bytes_to_download"}

\* a worker inside a closure goes on, and tokio's Mutex hands the lock to its
\* waiters in turn
FairLocks ==
    \A w \in Workers :
        /\ WF_vars(Release(w) \/ Leave(w))
        /\ SF_vars(Acquire(w))

SpecLocksLive == InitOfLocks /\ [][NextLocks]_vars /\ FairLocks

\* C37: the pull-state locks are acquired in one acyclic order, and in every
\* interleaving a worker waiting for a lock eventually gets it.
C37_NoDeadlock ==
    /\ []AcquiredInOrder
    /\ \A w \in Workers : Waiting(w) ~> ~Waiting(w)

\* C37 witness: a worker holding existing_digests and download_queue waits for
\* total_bytes_to_download, which another worker holds
C37_Witness ==
    \E w \in Workers :
        /\ Waiting(w)
        /\ lk_held[w] = {"existing_digests", "download_queue"}

----------------------------------------------------------------------------
(* The progress counters total_bytes_to_download and downloaded_bytes over *)
(* the units of one image, in the order its arms run                       *)
(* (src/compose/pull/mod.rs)                                               *)

MaxSize == 2

InitCounters ==
    /\ cnt_pc = "index_download"
    /\ unit_sizes \in [index : 1..MaxSize, manifest : 1..MaxSize,
                       config : 1..MaxSize, layer : 1..MaxSize]
    /\ index_known \in BOOLEAN
    /\ total_bytes_to_download = 0
    /\ downloaded_bytes = 0
    /\ all_ok = TRUE

\* one statement or call of an arm: the counters grow by dt and dd
CounterStep(from, to, dt, dd) ==
    /\ cnt_pc = from
    /\ cnt_pc' = to
    /\ total_bytes_to_download' = total_bytes_to_download + dt
    /\ downloaded_bytes' = downloaded_bytes + dd
    /\ UNCHANGED <<unit_sizes, index_known, all_ok>>
    /\ UNCHANGED notCounters

\* a download answered Err(e): download_failed, the image's chain of units ends
UnitFails(from) ==
    /\ cnt_pc = from
    /\ cnt_pc' = "end"
    /\ all_ok' = FALSE
    /\ UNCHANGED <<unit_sizes, index_known, total_bytes_to_download, downloaded_bytes>>
    /\ UNCHANGED notCounters

\* what queue_if_not_download adds to total_bytes_to_download
queued_size(known, size) == IF known THEN 0 ELSE size

IndexDownloaded == CounterStep("index_download", "index_counters", 0, 0)
IndexFails == UnitFails("index_download")

\* *total_bytes_to_download += image_json_len; *downloaded_bytes += image_json_len
IndexCounters ==
    CounterStep("index_counters", IF index_known THEN "index_queue" ELSE "index_put",
                unit_sizes.index, unit_sizes.index)

\* after upload_content_to_containerd: *downloaded_bytes += image_json_len
IndexPutCounter == CounterStep("index_put", "index_queue", 0, unit_sizes.index)

\* queue_if_not_download(&manifest.digest, .., manifest.size)
IndexQueues ==
    \E known \in BOOLEAN :
        CounterStep("index_queue", IF known THEN "end" ELSE "manifest_download",
                    queued_size(known, unit_sizes.manifest), 0)

ManifestDownloaded == CounterStep("manifest_download", "manifest_put", 0, 0)
ManifestFails == UnitFails("manifest_download")

\* after upload_content_to_containerd: *downloaded_bytes += manifest_json.len()
ManifestPutCounter == CounterStep("manifest_put", "manifest_queue", 0, unit_sizes.manifest)

\* queue_if_not_download(&manifest.config.digest, .., manifest.config.size)
ManifestQueues ==
    \E known \in BOOLEAN :
        CounterStep("manifest_queue",
                    IF known THEN "manifest_complete_last" ELSE "manifest_complete",
                    queued_size(known, unit_sizes.config), 0)

\* download_complete(.., manifest_json.len()): *downloaded_bytes += size
ManifestCompletes ==
    \/ CounterStep("manifest_complete", "config_download", 0, unit_sizes.manifest)
    \/ CounterStep("manifest_complete_last", "end", 0, unit_sizes.manifest)

ConfigDownloaded == CounterStep("config_download", "config_layers", 0, 0)
ConfigFails == UnitFails("config_download")

\* queue_if_not_download(&layer_digest, .., layer.size)
ConfigQueues ==
    \E known \in BOOLEAN :
        CounterStep("config_layers",
                    IF known THEN "config_complete_last" ELSE "config_complete",
                    queued_size(known, unit_sizes.layer), 0)

\* download_complete(.., config_bytes.len())
ConfigCompletes ==
    \/ CounterStep("config_complete", "layer_download", 0, unit_sizes.config)
    \/ CounterStep("config_complete_last", "end", 0, unit_sizes.config)

\* download_layer_to_containerd adds every written chunk to downloaded_bytes;
\* download_complete(.., 0) adds nothing
LayerDownloaded == CounterStep("layer_download", "end", 0, unit_sizes.layer)
LayerFails == UnitFails("layer_download")

NextCounters ==
    \/ IndexDownloaded \/ IndexFails \/ IndexCounters \/ IndexPutCounter \/ IndexQueues
    \/ ManifestDownloaded \/ ManifestFails \/ ManifestPutCounter \/ ManifestQueues
    \/ ManifestCompletes
    \/ ConfigDownloaded \/ ConfigFails \/ ConfigQueues \/ ConfigCompletes
    \/ LayerDownloaded \/ LayerFails

InitOfCounters ==
    IdlePull /\ IdleLease /\ IdleLayer /\ IdleUpload /\ IdleLogin /\ IdleBuild /\ IdlePlan
        /\ IdleParser /\ IdleExtract /\ IdleDetect /\ IdleCache /\ IdleMatcher /\ IdleCreds /\ IdleSink /\ IdleLocks /\ InitCounters /\ IdleCmdline

SpecCounters == InitOfCounters /\ [][NextCounters]_vars

\* C38: downloaded_bytes never exceeds total_bytes_to_download, and at the end
\* of a run in which every unit succeeded the two counters are equal.
C38_DownloadedAtMostTotal ==
    /\ downloaded_bytes <= total_bytes_to_download
    /\ (cnt_pc = "end" /\ all_ok) => downloaded_bytes = total_bytes_to_download

----------------------------------------------------------------------------
(* parse_kernel_cmdline (src/system_login.rs)                               *)
(* A string is the sequence of its tokens: a name, a scheme, one of the    *)
(* separators , ; " and the space, a plain word, or the prefix dockerlogin= *)

MaxEntries == 2
MaxFields == 4

\* what a generated entry is made of: its first field is a host or a name,
\* bare or with a scheme; its second field is a name; the later ones are "a"
HostValues == {<<"a">>, <<"b">>, <<"https://", "a">>, <<"http://", "a">>}
NameValues == {<<"a">>, <<"b">>}
FieldValues(i) == IF i = 1 THEN HostValues ELSE IF i = 2 THEN NameValues ELSE {<<"a">>}

\* the entries written after dockerlogin=: no field at all (the empty
\* entry, as after a trailing ';'), or one to MaxFields fields with commas
EntryStrings ==
    {<< >>} \cup
    {join(fs, ",") :
        fs \in UNION {{f \in [1..k -> HostValues \cup NameValues] :
                          \A i \in 1..k : f[i] \in FieldValues(i)} : k \in 1..MaxFields}}

\* the command lines: "quiet" alone, or "quiet dockerlogin=<entries>", the
\* entries bare or in double quotes
Cmdlines ==
    {<<"quiet">>} \cup
    {<<"quiet", " ", "dockerlogin=">> \o
         (IF quoted THEN <<"\"">> \o join(es, ";") \o <<"\"">> ELSE join(es, ";")) :
         es \in UNION {[1..n -> EntryStrings] : n \in 1..MaxEntries},
         quoted \in BOOLEAN}

InitCmdline ==
    /\ kc_pc = "start"
    /\ cmdline \in Cmdlines
    /\ system_login = {}

NonEmptyPiece(piece) == piece # << >>

\* str::split_whitespace: the non-empty pieces between the spaces (split is
\* str::split, defined with download_index)
split_whitespace(s) == SelectSeq(split(s, " "), NonEmptyPiece)

RECURSIVE trim_start_matches(_, _)
trim_start_matches(s, ch) ==
    IF s # << >> /\ Head(s) = ch THEN trim_start_matches(Tail(s), ch) ELSE s

RECURSIVE trim_end_matches(_, _)
trim_end_matches(s, ch) ==
    IF s # << >> /\ s[Len(s)] = ch
    THEN trim_end_matches(SubSeq(s, 1, Len(s) - 1), ch) ELSE s

\* str::trim_matches(ch): ch stripped from both ends
trim_matches(s, ch) == trim_end_matches(trim_start_matches(s, ch), ch)

\* str::trim
trim(s) == trim_matches(s, " ")

\* str::starts_with
starts_with(s, prefix) == s # << >> /\ Head(s) = prefix

\* let mut hostname = fields[0].trim().trim_matches('"'); "https://" is put
\* in front unless it starts with "https://" or "http://"
hostname_of(field) ==
    LET hostname == trim_matches(trim(field), "\"")
    IN  IF ~starts_with(hostname, "https://") /\ ~starts_with(hostname, "http://")
        THEN <<"https://">> \o hostname
        ELSE hostname

\* "https://registry-1.docker.io"
DefaultHostname == <<"https://", "registry-1.docker.io">>

LoginCredentials(username, password) ==
    [username |-> username, password |-> password]

\* an insert that leaves an occupied key alone
insert_if_vacant(credentials_map, hostname, login_credentials) ==
    IF \E e \in credentials_map : e.hostname = hostname THEN credentials_map
    ELSE credentials_map \cup
             {[hostname |-> hostname, credentials |-> login_credentials]}

\* HashMap::insert: the value of an occupied key is replaced
insert(credentials_map, hostname, login_credentials) ==
    {e \in credentials_map : e.hostname # hostname} \cup
        {[hostname |-> hostname, credentials |-> login_credentials]}

\* the body of `for entry in rest.trim_matches('"').split(';')`
parse_entry(credentials_map, entry) ==
    IF trim(entry) = << >> THEN credentials_map
    ELSE LET fields == split(entry, ",")
         IN  IF Len(fields) = 3
             THEN insert(credentials_map, hostname_of(fields[1]),
                         LoginCredentials(trim(fields[2]), trim(fields[3])))
             ELSE IF Len(fields) = 2
             THEN insert(credentials_map, DefaultHostname,
                         LoginCredentials(trim(fields[1]), trim(fields[2])))
             ELSE credentials_map

RECURSIVE parse_entries(_, _)
parse_entries(credentials_map, entries) ==
    IF entries = << >> THEN credentials_map
    ELSE parse_entries(parse_entry(credentials_map, Head(entries)), Tail(entries))

RECURSIVE parse_parts(_, _)
\* for part in cmdline.split_whitespace(): if let Some(rest) =
\* part.strip_prefix("dockerlogin=")
parse_parts(credentials_map, parts) ==
    IF parts = << >> THEN credentials_map
    ELSE parse_parts(
             IF starts_with(Head(parts), "dockerlogin=")
             THEN parse_entries(credentials_map,
                                split(trim_matches(Tail(Head(parts)), "\""), ";"))
             ELSE credentials_map,
             Tail(parts))

parse_kernel_cmdline(s) == parse_parts({}, split_whitespace(s))

\* get_system_login: parse_kernel_cmdline(&cmdline)
GetSystemLogin ==
    /\ kc_pc = "start"
    /\ kc_pc' = "done"
    /\ system_login' = parse_kernel_cmdline(cmdline)
    /\ UNCHANGED cmdline
    /\ UNCHANGED notCmdline

NextCmdline == GetSystemLogin

InitOfCmdline ==
    IdlePull /\ IdleLease /\ IdleLayer /\ IdleUpload /\ IdleLogin /\ IdleBuild /\ IdlePlan
        /\ IdleParser /\ IdleExtract /\ IdleDetect /\ IdleCache /\ IdleMatcher /\ IdleCreds /\ IdleSink /\ IdleLocks /\ IdleCounters /\ InitCmdline

SpecCmdline == InitOfCmdline /\ [][NextCmdline]_vars

\* the ';'-separated entries written after dockerlogin= on the command line
\* (none when the command line has no dockerlogin= part)
DockerloginEntries ==
    LET parts == split_whitespace(cmdline)
        at == {i \in DOMAIN parts : starts_with(parts[i], "dockerlogin=")}
    IN  IF at = {} THEN << >>
        ELSE split(trim_matches(Tail(parts[CHOOSE i \in at : TRUE]), "\""), ";")

\* the entries with two or three fields
CredentialEntries ==
    {i \in DOMAIN DockerloginEntries : Len(split(DockerloginEntries[i], ",")) \in {2, 3}}

\* the key the claim gives an entry: the host, with https:// in front when it
\* has no scheme, or the default host for a two-field entry
KeyOfEntry(i) ==
    LET fields == split(DockerloginEntries[i], ",")
    IN  IF Len(fields) = 2 THEN DefaultHostname
        ELSE IF starts_with(fields[1], "https://") \/ starts_with(fields[1], "http://")
        THEN fields[1]
        ELSE <<"https://">> \o fields[1]

\* the user and password of an entry: its last two fields
CredentialOfEntry(i) ==
    LET fields == split(DockerloginEntries[i], ",")
    IN  [username |-> fields[Len(fields) - 1], password |-> fields[Len(fields)]]

\* C40 (as claimed): parse_kernel_cmdline yields one credential per entry
\* with two or three fields, keyed as the claim says, and nothing for the
\* other entries.
C40_OneCredentialPerEntry ==
    kc_pc = "done" =>
        /\ Cardinality(system_login) = Cardinality(CredentialEntries)
        /\ \A i \in CredentialEntries :
              [hostname |-> KeyOfEntry(i), credentials |-> CredentialOfEntry(i)]
                  \in system_login

\* C40 (amended): parse_kernel_cmdline yields one credential per key: the
\* result holds, for every key of an entry with two or three fields, the user
\* and password of the last entry with that key, and nothing else; a
\* three-field entry is keyed by its host, with https:// in front when it has
\* no scheme, a two-field entry by https://registry-1.docker.io, and entries
\* with any other number of fields are ignored.
C40_OneCredentialPerKey ==
    kc_pc = "done" =>
        system_login =
            {[hostname |-> KeyOfEntry(i), credentials |-> CredentialOfEntry(i)] :
                i \in {i \in CredentialEntries :
                          \A j \in CredentialEntries :
                              j > i => KeyOfEntry(j) # KeyOfEntry(i)}}

\* C40 witness: two two-field entries share the default key; the map holds
\* the second one only
C40_Witness ==
    /\ kc_pc = "done"
    /\ cmdline = <<"quiet", " ", "dockerlogin=", "a", ",", "a", ";", "b", ",", "b">>
    /\ system_login =
           {[hostname |-> DefaultHostname,
             credentials |-> LoginCredentials(<<"b">>, <<"b">>)]}

====
